---- MODULE Spec2Model ----
\* Itinerary optimisation engine of Travel-Planning-Agent:
\*   agent/planner.py      distance, nearest_neighbor_path, build_initial_itinerary,
\*                         try_move_one_spot, try_swap_spots_between_days,
\*                         plan_itinerary_soft_constraints
\*   agent/constraints.py  ScoreConfig, compute_day_distance_km, score_itinerary,
\*                         repair_itinerary
\* Coordinates are whole degrees taken from a 3 x 4 rectangle, so that every
\* pairwise distance sqrt(dlat^2 + dlon^2) * 111 is an integer and the float
\* arithmetic of the source is exact on the inputs of the model.
EXTENDS Integers, Sequences, FiniteSets

VARIABLES
    args,            \* arguments of plan_itinerary_soft_constraints: city, spots, days, cfg, trials
    pc,              \* "idle" (no call running) or "loop" (inside the for loop, planner.py:185)
    t,               \* number of loop iterations completed
    heap,            \* live Itinerary objects, by address
    base,            \* local variable base (address, 0 = unbound)
    best,            \* local variable best
    current,         \* local variable current
    candidate,       \* local variable candidate
    best_score,
    best_reasons,
    candidate_score,
    tape,            \* the values the module-level random generator yields after seed(0), as far as drawn
    pos,             \* number of values drawn from the generator since it was last seeded
    results,         \* what the calls made so far returned or raised, oldest first
    todo,            \* number of calls the caller has still to make
    itinerary,       \* the Itinerary handed to repair_itinerary (mutated in place)
    pre,             \* that Itinerary as it was when the pass started
    rpc,             \* "ready" or "repaired"
    called,          \* the last call made on that Itinerary: its name, argument and outcome
    rl,              \* the process's rate limiter: clock, recorded requests, callers under way
    conc             \* two requests sharing the generator: the values drawn so far in the
                     \* caller's running iteration, and the frame of the other request

vars == <<args, pc, t, heap, base, best, current, candidate, best_score,
          best_reasons, candidate_score, tape, pos, results, todo, itinerary, pre, rpc, called, rl, conc>>

planVars == <<args, pc, t, heap, base, best, current, candidate, best_score,
              best_reasons, candidate_score, tape, pos, results, todo, conc>>

repairVars == <<itinerary, pre, rpc, called>>

-----------------------------------------------------------------------------
\* Bounds of the model.

MaxSpots == 3       \* longest spot list handed to the planner
MaxDays == 2        \* largest day count
MaxTrials == 2      \* largest trial budget
MaxRepairSpots == 4 \* most spots of an itinerary handed to repair_itinerary
MaxRepairDays == 3  \* most days of an itinerary handed to repair_itinerary

-----------------------------------------------------------------------------
\* Data model (agent/types.py).

\* A coordinate is a float of the source language, an IEEE double. The model
\* has the whole numbers of degrees, Whole(n), and the whole multiples of
\* 2^-600 degrees, Small(m), written [m, e] for m * 2^e; zero is Whole(0).
Whole(n) == [m |-> n, e |-> 0]

Small(m) == IF m = 0 THEN Whole(0) ELSE [m |-> m, e |-> -600]

Spot(n, la, lo, c) == [name |-> n, lat |-> la, lon |-> lo, category |-> c]

\* The spots a request can mention. "E" stands at the same place as "A".
PoolSeq ==
    << Spot("A", Whole(0), Whole(0), "park"),
       Spot("E", Whole(0), Whole(0), "temple"),
       Spot("B", Whole(4), Whole(0), "museum"),
       Spot("C", Whole(0), Whole(3), "food") >>

Pool == { PoolSeq[i] : i \in 1..Len(PoolSeq) }

DayPlan(d, s, km) == [day |-> d, spots |-> s, total_distance_km |-> km]

Itinerary(c, ds) == [city |-> c, days |-> ds]

\* ScoreConfig (constraints.py:74-85); the first is the default configuration.
ScoreConfig(mk, ep, op, ms) ==
    [max_daily_km |-> mk, exceed_km_penalty |-> ep,
     one_spot_day_penalty |-> op, min_spots_per_day |-> ms]

Configs == { ScoreConfig(6, 25, 15, 2), ScoreConfig(500, 25, 15, 2) }

-----------------------------------------------------------------------------
\* Sequence helpers (list operations of the source language).

Range(s) == { s[i] : i \in 1..Len(s) }

Max(a, b) == IF a >= b THEN a ELSE b

\* list.pop(i) / del list[i], 1-based
RemoveAt(s, i) == [k \in 1..(Len(s) - 1) |-> IF k < i THEN s[k] ELSE s[k + 1]]

\* the multiset of a list's elements
BagOf(s) == [x \in Range(s) |-> Cardinality({ i \in 1..Len(s) : s[i] = x })]

RECURSIVE Concat(_)
Concat(ss) == IF ss = <<>> THEN <<>> ELSE Head(ss) \o Concat(Tail(ss))

\* all spots of an itinerary, day after day
AllSpots(itin) == Concat([i \in 1..Len(itin.days) |-> itin.days[i].spots])

\* all lists of length <= n over S
SeqsUpTo(S, n) == UNION { [1..k -> S] : k \in 0..n }

-----------------------------------------------------------------------------
\* Geometry (planner.py:4-5).

Abs(x) == IF x < 0 THEN -x ELSE x

\* x < y on floats
FloatLess(x, y) ==
    IF x.e = y.e THEN x.m < y.m
    ELSE IF x.e = 0 THEN (IF x.m = 0 THEN 0 < y.m ELSE x.m < 0)
    ELSE (IF y.m = 0 THEN x.m < 0 ELSE 0 < y.m)

\* x - y on floats, rounded as the machine rounds it: the difference of two
\* whole numbers or of two small ones is exact; a small number is less than
\* half a unit in the last place of any whole number but 0, so taking it from
\* or adding it to such a number leaves that number.
FloatSub(x, y) ==
    IF x.e = y.e THEN (IF x.e = 0 THEN Whole(x.m - y.m) ELSE Small(x.m - y.m))
    ELSE IF x.e = 0 THEN (IF x.m = 0 THEN Small(-y.m) ELSE x)
    ELSE (IF y.m = 0 THEN x ELSE Whole(-y.m))

\* x ** 2 on floats, a whole number: the square of m * 2^-600 is m * m *
\* 2^-1200, which is less than half the least positive double, 2^-1074, and
\* is rounded to 0.0 (underflow raises nothing).
FloatSquare(x) == IF x.e = 0 THEN x.m * x.m ELSE 0

\* math.sqrt, on the perfect squares the pool produces
Sqrt(n) == CHOOSE r \in 0..n : r * r = n

\* planner.py:4-5; the result is a whole number of km
distance(a, b) ==
    Sqrt(FloatSquare(FloatSub(a.lat, b.lat)) + FloatSquare(FloatSub(a.lon, b.lon))) * 111

-----------------------------------------------------------------------------
\* nearest_neighbor_path (planner.py:86-96).

\* Variant of MinIdx: of the elements of least distance the last one.
MinIdxLastTie(unvisited, last) ==
    CHOOSE i \in 1..Len(unvisited) :
        /\ \A k \in 1..Len(unvisited) :
               distance(last, unvisited[i]) <= distance(last, unvisited[k])
        /\ \A k \in (i + 1)..Len(unvisited) :
               distance(last, unvisited[k]) > distance(last, unvisited[i])

\* min(unvisited, key=distance to last): the first element of least distance
MinIdx(unvisited, last) ==
    CHOOSE i \in 1..Len(unvisited) :
        /\ \A k \in 1..Len(unvisited) :
               distance(last, unvisited[i]) <= distance(last, unvisited[k])
        /\ \A k \in 1..(i - 1) :
               distance(last, unvisited[k]) > distance(last, unvisited[i])

RECURSIVE NNLoop(_, _)
NNLoop(path, unvisited) ==
    IF unvisited = <<>> THEN path
    ELSE LET i == MinIdx(unvisited, path[Len(path)])
         IN  NNLoop(Append(path, unvisited[i]), RemoveAt(unvisited, i))

nearest_neighbor_path(s) ==
    IF s = <<>> THEN <<>> ELSE NNLoop(<<Head(s)>>, Tail(s))

-----------------------------------------------------------------------------
\* build_initial_itinerary (planner.py:99-113).

\* key=lambda s: (s.lon, s.lat), compared as tuples
KeyLess(a, b) == FloatLess(a.lon, b.lon) \/ (a.lon = b.lon /\ FloatLess(a.lat, b.lat))

\* sorted() is stable: x goes after every element whose key is not greater
RECURSIVE InsertSorted(_, _)
InsertSorted(s, x) ==
    IF s = <<>> THEN <<x>>
    ELSE IF KeyLess(x, Head(s)) THEN <<x>> \o s
         ELSE <<Head(s)>> \o InsertSorted(Tail(s), x)

RECURSIVE sorted(_)
sorted(s) ==
    IF s = <<>> THEN <<>>
    ELSE InsertSorted(sorted(SubSeq(s, 1, Len(s) - 1)), s[Len(s)])

\* Variant of Chunk: the contiguous blocks of plan_itinerary (planner.py:12-18),
\* which leave out the remainder of the division.
ChunkTruncating(ss, d, i) ==
    LET size == Max(1, Len(ss) \div d)
    IN  SubSeq(ss, i * size + 1, IF (i + 1) * size <= Len(ss) THEN (i + 1) * size ELSE Len(ss))

\* Variant of Chunk: contiguous blocks of the sorted list, the first ones one
\* longer when the division leaves a remainder.
ChunkBlocks(ss, d, i) ==
    LET q == Len(ss) \div d
        r == Len(ss) % d
        lo == i * q + (IF i < r THEN i ELSE r)
        hi == (i + 1) * q + (IF i + 1 < r THEN i + 1 ELSE r)
    IN  SubSeq(ss, lo + 1, hi)

\* chunks[i % days].append(s) for i, s in enumerate(spots_sorted)   (0-based i)
Chunk(ss, d, i) ==
    LET idx == { k \in 1..Len(ss) : (k - 1) % d = i }
        F[n \in 0..Len(ss)] ==
            IF n = 0 THEN <<>>
            ELSE IF n \in idx THEN Append(F[n - 1], ss[n]) ELSE F[n - 1]
    IN  F[Len(ss)]

\* Returns [exc, itin]. With days <= 0 the list of chunks is empty: an empty
\* spot list then yields an itinerary of no days, a non-empty one fails at
\* the first chunks[i % days] (division by zero for 0, index error below 0).
build_initial_itinerary(c, s, d) ==
    IF d >= 1
    THEN [exc |-> "none",
          itin |-> Itinerary(c, [i \in 1..d |->
                      DayPlan(i, nearest_neighbor_path(Chunk(sorted(s), d, i - 1)), 0)])]
    ELSE IF s = <<>>
         THEN [exc |-> "none", itin |-> Itinerary(c, <<>>)]
         ELSE [exc |-> IF d = 0 THEN "ZeroDivisionError" ELSE "IndexError",
               itin |-> Itinerary(c, <<>>)]

-----------------------------------------------------------------------------
\* score_itinerary (constraints.py:88-132).

compute_day_distance_km(s) ==
    LET F[n \in 1..Len(s)] ==
            IF n = 1 THEN 0 ELSE F[n - 1] + distance(s[n - 1], s[n])
    IN  IF Len(s) = 0 THEN 0 ELSE F[Len(s)]

\* the reasons one day contributes, in the order the code appends them
DayReasons(day, c, expect_min) ==
    LET km == compute_day_distance_km(day.spots)
    IN  (IF km > c.max_daily_km
         THEN << <<"exceeded", day.day, c.max_daily_km, km - c.max_daily_km,
                   (km - c.max_daily_km) * c.exceed_km_penalty>> >>
         ELSE <<>>)
        \o
        (IF expect_min /\ Len(day.spots) < c.min_spots_per_day
         THEN << <<"only", day.day, Len(day.spots), c.one_spot_day_penalty>> >>
         ELSE <<>>)

\* Variant of DayScore: the penalty is charged on the whole route, not on the
\* part over the limit.
DayScoreWholeKm(day, c, expect_min) ==
    LET km == compute_day_distance_km(day.spots)
    IN  km
        + (IF km > c.max_daily_km THEN km * c.exceed_km_penalty ELSE 0)
        + (IF expect_min /\ Len(day.spots) < c.min_spots_per_day
           THEN c.one_spot_day_penalty ELSE 0)

\* Variant of DayScore: a day under min_spots_per_day is penalised whether or
\* not the spots would suffice for every day.
DayScoreAlwaysExpect(day, c, expect_min) ==
    LET km == compute_day_distance_km(day.spots)
    IN  km
        + (IF km > c.max_daily_km
           THEN (km - c.max_daily_km) * c.exceed_km_penalty ELSE 0)
        + (IF Len(day.spots) < c.min_spots_per_day
           THEN c.one_spot_day_penalty ELSE 0)

\* what one day adds to the score (lines 110-127)
DayScore(day, c, expect_min) ==
    LET km == compute_day_distance_km(day.spots)
    IN  km
        + (IF km > c.max_daily_km
           THEN (km - c.max_daily_km) * c.exceed_km_penalty ELSE 0)
        + (IF expect_min /\ Len(day.spots) < c.min_spots_per_day
           THEN c.one_spot_day_penalty ELSE 0)

\* Variant of score_itinerary: every day's route is put into nearest-neighbour
\* order before it is measured.
score_itineraryReordering(itin, c) ==
    LET n == Len(itin.days)
        ordered == [itin EXCEPT !.days =
                       [k \in 1..n |-> [itin.days[k] EXCEPT !.spots = nearest_neighbor_path(@)]]]
        expect_min == Len(AllSpots(itin)) >= n * c.min_spots_per_day
        S[k \in 0..n] ==
            IF k = 0 THEN 0 ELSE S[k - 1] + DayScore(ordered.days[k], c, expect_min)
    IN  [score |-> S[n],
         reasons |-> Concat([k \in 1..n |-> DayReasons(ordered.days[k], c, expect_min)]),
         itin |-> [ordered EXCEPT !.days =
                      [k \in 1..n |->
                          [ordered.days[k] EXCEPT !.total_distance_km =
                              compute_day_distance_km(ordered.days[k].spots)]]]]

\* Returns [score, reasons, itin]: itin is the argument as the call leaves it,
\* every day's total_distance_km overwritten.
score_itinerary(itin, c) ==
    LET n == Len(itin.days)
        total_spots == Len(AllSpots(itin))
        expect_min == total_spots >= n * c.min_spots_per_day
        S[k \in 0..n] ==
            IF k = 0 THEN 0 ELSE S[k - 1] + DayScore(itin.days[k], c, expect_min)
    IN  [score |-> S[n],
         reasons |-> Concat([k \in 1..n |-> DayReasons(itin.days[k], c, expect_min)]),
         itin |-> [itin EXCEPT !.days =
                      [k \in 1..n |->
                          [itin.days[k] EXCEPT !.total_distance_km =
                              compute_day_distance_km(itin.days[k].spots)]]]]

-----------------------------------------------------------------------------
\* Objects and the random generator.

EmptyHeap == <<>>

\* the heap with one more object v, at the first free address
Alloc(h, v) ==
    LET a == CHOOSE x \in 1..(Cardinality(DOMAIN h) + 1) :
                 x \notin DOMAIN h /\ \A y \in 1..(x - 1) : y \in DOMAIN h
    IN  [heap |-> [x \in DOMAIN h \cup {a} |-> IF x = a THEN v ELSE h[x]],
         ref |-> a]

\* Variant of deepcopy: no copy is made, the same object is handed back.
deepcopyAlias(h, r) == [heap |-> h, ref |-> r]

\* copy.deepcopy(itin) (planner.py:120, 146): a new object, equal to the old
deepcopy(h, r) == Alloc(h, h[r])

\* objects no local variable refers to any more are freed
Collect(h, live) == [x \in DOMAIN h \cap live |-> h[x]]

\* Variant of random_seed: the generator is left where it is.
random_seedNot(p) == p

\* random.seed(0) (planner.py:177): the generator restarts its sequence
random_seed(p) == 0

\* The outcomes the generator can give for its p-th draw since seeding, among
\* n alternatives: what it gave at that place before, if it was there before
\* (the sequence after seed(0) is fixed), and any of them otherwise.
DrawSet(p, n) ==
    IF n = 0 THEN {0}
    ELSE IF p <= Len(tape) THEN { tape[p] % n } ELSE 0..(n - 1)

\* The tape after the k draws d[1..k] made from position p on. The draws are
\* kept only while the caller has a later call to make, which re-reads them.
Record(tp, p, d, k) ==
    IF todo = 0 THEN tp
    ELSE [i \in 1..Max(Len(tp), p + k) |-> IF i <= Len(tp) THEN tp[i] ELSE d[i - p]]

-----------------------------------------------------------------------------
\* try_move_one_spot (planner.py:116-139).

\* Variant of FromCandidates: a day with a single spot is a candidate too.
FromCandidatesAnyDay(itin) ==
    LET n == Len(itin.days)
        F[k \in 0..n] ==
            IF k = 0 THEN <<>>
            ELSE IF Len(itin.days[k].spots) >= 1 THEN Append(F[k - 1], k) ELSE F[k - 1]
    IN  F[n]

\* positions of the days with at least two spots, in day order (line 123)
FromCandidates(itin) ==
    LET n == Len(itin.days)
        F[k \in 0..n] ==
            IF k = 0 THEN <<>>
            ELSE IF Len(itin.days[k].spots) >= 2 THEN Append(F[k - 1], k) ELSE F[k - 1]
    IN  F[n]

\* positions of the days d with d.day != src.day, in day order (line 128)
OtherDays(itin, src) ==
    LET n == Len(itin.days)
        F[k \in 0..n] ==
            IF k = 0 THEN <<>>
            ELSE IF itin.days[k].day # itin.days[src].day
                 THEN Append(F[k - 1], k) ELSE F[k - 1]
    IN  F[n]

\* Variant of MoveSpot: the popped spot is not appended to the other day.
MoveSpotLost(itin, src, dst, idx) ==
    [itin EXCEPT
        !.days[src].spots = nearest_neighbor_path(RemoveAt(@, idx)),
        !.days[dst].spots = nearest_neighbor_path(@)]

\* lines 131-137 on the copy: pop spot idx of day src, append it to day dst,
\* re-order both days
MoveSpot(itin, src, dst, idx) ==
    LET moved == itin.days[src].spots[idx]
    IN  [itin EXCEPT
            !.days[src].spots = nearest_neighbor_path(RemoveAt(@, idx)),
            !.days[dst].spots = nearest_neighbor_path(Append(@, moved))]

\* c1, c2, c3: what random.choice (line 127), random.choice (line 128) and
\* random.randrange (line 131) return, as 0-based indices.
\* Returns [heap, ref, exc, used]: the heap after the call, the address of the
\* returned itinerary, the exception raised ("none" if none) and the number
\* of draws made. random.choice of an empty list raises IndexError.
try_move_one_spot(h, r, c1, c2, c3) ==
    LET cp == deepcopy(h, r)
        new_itin == cp.heap[cp.ref]
        from_candidates == FromCandidates(new_itin)
    IN  IF from_candidates = <<>>
        THEN [heap |-> cp.heap, ref |-> cp.ref, exc |-> "none", used |-> 0]
        ELSE LET src == from_candidates[c1 + 1]
                 others == OtherDays(new_itin, src)
             IN  IF others = <<>>
                 THEN [heap |-> h, ref |-> 0, exc |-> "IndexError", used |-> 1]
                 ELSE [heap |-> [cp.heap EXCEPT ![cp.ref] =
                                    MoveSpot(new_itin, src, others[c2 + 1], c3 + 1)],
                       ref |-> cp.ref, exc |-> "none", used |-> 3]

-----------------------------------------------------------------------------
\* try_swap_spots_between_days (planner.py:142-163).

\* random.sample(days, 2): the first pick is pool[j1], the last element then
\* takes its place in the pool, the second pick is pool[j2] (0-based j1, j2).
SampleFirst(n, j1) == j1 + 1

SampleSecond(n, j1, j2) == IF j2 = j1 THEN n ELSE j2 + 1

\* lines 158-161 on the copy
SwapSpots(itin, d1, d2, i, j) ==
    LET a == itin.days[d1].spots[i]
        b == itin.days[d2].spots[j]
    IN  [itin EXCEPT
            !.days[d1].spots = nearest_neighbor_path([@ EXCEPT ![i] = b]),
            !.days[d2].spots = nearest_neighbor_path([@ EXCEPT ![j] = a])]

\* j1, j2: the two draws of random.sample (line 151); ci, cj: what the two
\* random.randrange return (lines 155-156). Returns as try_move_one_spot.
try_swap_spots_between_days(h, r, j1, j2, ci, cj) ==
    LET cp == deepcopy(h, r)
        new_itin == cp.heap[cp.ref]
        n == Len(new_itin.days)
    IN  IF n < 2
        THEN [heap |-> cp.heap, ref |-> cp.ref, exc |-> "none", used |-> 0]
        ELSE LET d1 == SampleFirst(n, j1)
                 d2 == SampleSecond(n, j1, j2)
             IN  IF new_itin.days[d1].spots = <<>> \/ new_itin.days[d2].spots = <<>>
                 THEN [heap |-> cp.heap, ref |-> cp.ref, exc |-> "none", used |-> 2]
                 ELSE [heap |-> [cp.heap EXCEPT ![cp.ref] =
                                    SwapSpots(new_itin, d1, d2, ci + 1, cj + 1)],
                       ref |-> cp.ref, exc |-> "none", used |-> 4]

-----------------------------------------------------------------------------
\* plan_itinerary_soft_constraints (planner.py:166-201).

\* Variant of LoopContinues: the body runs once before the budget is looked at.
LoopContinuesAtLeastOnce(k, n) == k < Max(n, 1)

\* for _ in range(trials) (line 185): another iteration follows k completed ones
LoopContinues(k, n) == k < n

\* Variants of Accept: every candidate of another score; ties as well.
AcceptAnyOther(cs, bs) == cs # bs

AcceptTies(cs, bs) == cs <= bs

\* if candidate_score < best_score (line 195)
Accept(cs, bs) == cs < bs

\* a call on the caller's Itinerary: function, argument, exception, return value
CallRecord(f, a, e, r) == [op |-> f, arg |-> a, exc |-> e, ret |-> r]

NoCall == CallRecord("none", 0, "none", 0)

\* the request does not go through a rate limiter
NoLimiter == [kind |-> "none"]

\* a request not being served
NoOther ==
    [pc |-> "none", t |-> 0, current |-> Itinerary("Tokyo", <<>>), best_score |-> 0,
     drawn |-> <<>>]

\* one request alone in the process
NoConcurrency == [drawn |-> <<>>, other |-> NoOther]

\* what a call hands back: its return value, or the exception it raised
Returned(itin, score, reasons) ==
    [exc |-> "none", itinerary |-> itin, score |-> score, reasons |-> reasons]

Raised(e) == [exc |-> e]

\* the frame of a call is gone: locals unbound, its objects freed
Unwind ==
    /\ pc' = "idle"
    /\ t' = 0
    /\ heap' = EmptyHeap
    /\ base' = 0 /\ best' = 0 /\ current' = 0 /\ candidate' = 0
    /\ best_score' = 0 /\ best_reasons' = <<>> /\ candidate_score' = 0

ArgSets ==
    [city : {"Tokyo"},
     spots : SeqsUpTo(Pool, MaxSpots),
     days : (-1)..MaxDays,
     cfg : Configs,
     trials : 0..MaxTrials]

PlanInit ==
    /\ args \in ArgSets
    /\ pc = "idle"
    /\ t = 0
    /\ heap = EmptyHeap
    /\ base = 0 /\ best = 0 /\ current = 0 /\ candidate = 0
    /\ best_score = 0 /\ best_reasons = <<>> /\ candidate_score = 0
    /\ tape = <<>>
    /\ pos = 0
    /\ results = <<>>
    /\ todo = 1

\* Lines 177-184: seed the generator, build the seed itinerary, score it.
Call ==
    /\ pc = "idle"
    /\ todo > 0
    /\ todo' = todo - 1
    /\ pos' = random_seed(pos)
    /\ tape' = tape
    /\ LET b == build_initial_itinerary(args.city, args.spots, args.days)
       IN  IF b.exc # "none"
           THEN /\ results' = Append(results, Raised(b.exc))
                /\ Unwind
           ELSE LET sc == score_itinerary(b.itin, args.cfg)
                    al == Alloc(EmptyHeap, sc.itin)
                IN  /\ heap' = al.heap
                    /\ base' = al.ref /\ best' = al.ref /\ current' = al.ref
                    /\ candidate' = 0 /\ candidate_score' = 0
                    /\ best_score' = sc.score
                    /\ best_reasons' = sc.reasons
                    /\ t' = 0
                    /\ pc' = "loop"
                    /\ results' = results
    /\ UNCHANGED <<args, itinerary, pre, rpc, called, rl, conc>>

\* Lines 192-199 for the outcome r of the edit operator: score the candidate,
\* accept it if better.
AcceptOrReject(r) ==
    IF r.exc # "none"
    THEN /\ results' = Append(results, Raised(r.exc))
         /\ Unwind
    ELSE LET sc == score_itinerary(r.heap[r.ref], args.cfg)
             h2 == [r.heap EXCEPT ![r.ref] = sc.itin]
             acc == Accept(sc.score, best_score)
         IN  /\ candidate' = r.ref
             /\ candidate_score' = sc.score
             /\ best' = IF acc THEN r.ref ELSE best
             /\ current' = IF acc THEN r.ref ELSE current
             /\ best_score' = IF acc THEN sc.score ELSE best_score
             /\ best_reasons' = IF acc THEN sc.reasons ELSE best_reasons
             /\ heap' = Collect(h2, {base, r.ref, IF acc THEN r.ref ELSE best,
                                     IF acc THEN r.ref ELSE current})
             /\ t' = t + 1
             /\ pc' = "loop"
             /\ base' = base
             /\ results' = results

\* One iteration whose draws d[1..k] are made with no other request at the
\* generator, and its lines 192-199.
FinishTrial(r, d, k) ==
    /\ tape' = Record(tape, pos, d, k)
    /\ pos' = pos + k
    /\ AcceptOrReject(r)
    /\ UNCHANGED <<args, todo, itinerary, pre, rpc, called, rl, conc>>

\* One iteration in which random.random() < 0.6 (line 187): the move operator.
TrialMove ==
    /\ pc = "loop"
    /\ LoopContinues(t, args.trials)
    /\ \E u \in DrawSet(pos + 1, 2) :
        /\ u = 0
        /\ LET itin == heap[current]
               from == FromCandidates(itin)
               n1 == Len(from)
           IN  \E c1 \in DrawSet(pos + 2, n1) :
               LET n2 == IF n1 = 0 THEN 0 ELSE Len(OtherDays(itin, from[c1 + 1]))
                   n3 == IF n2 = 0 THEN 0 ELSE Len(itin.days[from[c1 + 1]].spots)
               IN  \E c2 \in DrawSet(pos + 3, n2) :
                   \E c3 \in DrawSet(pos + 4, n3) :
                       LET r == try_move_one_spot(heap, current, c1, c2, c3)
                       IN  FinishTrial(r, <<u, c1, c2, c3>>, 1 + r.used)

\* One iteration in which random.random() >= 0.6: the swap operator.
TrialSwap ==
    /\ pc = "loop"
    /\ LoopContinues(t, args.trials)
    /\ \E u \in DrawSet(pos + 1, 2) :
        /\ u = 1
        /\ LET itin == heap[current]
               n == Len(itin.days)
               n1 == IF n < 2 THEN 0 ELSE n
               n2 == IF n < 2 THEN 0 ELSE n - 1
           IN  \E j1 \in DrawSet(pos + 2, n1) :
               \E j2 \in DrawSet(pos + 3, n2) :
               LET d1 == SampleFirst(n, j1)
                   d2 == SampleSecond(n, j1, j2)
                   both == n >= 2 /\ itin.days[d1].spots # <<>> /\ itin.days[d2].spots # <<>>
                   n3 == IF both THEN Len(itin.days[d1].spots) ELSE 0
                   n4 == IF both THEN Len(itin.days[d2].spots) ELSE 0
               IN  \E ci \in DrawSet(pos + 4, n3) :
                   \E cj \in DrawSet(pos + 5, n4) :
                       LET r == try_swap_spots_between_days(heap, current, j1, j2, ci, cj)
                       IN  FinishTrial(r, <<u, j1, j2, ci, cj>>, 1 + r.used)

\* Line 201: the loop is over.
Return ==
    /\ pc = "loop"
    /\ ~LoopContinues(t, args.trials)
    /\ results' = Append(results, Returned(heap[best], best_score, best_reasons))
    /\ Unwind
    /\ UNCHANGED <<args, tape, pos, todo, itinerary, pre, rpc, called, rl, conc>>

Init ==
    /\ PlanInit
    /\ itinerary = Itinerary("Tokyo", <<>>)
    /\ pre = Itinerary("Tokyo", <<>>)
    /\ rpc = "off"
    /\ called = NoCall
    /\ rl = NoLimiter
    /\ conc = NoConcurrency

Next == Call \/ TrialMove \/ TrialSwap \/ Return

Spec == Init /\ [][Next]_vars

\* the spots of PoolSeq at the positions S, in that order
Pick(S) ==
    LET F[n \in 0..Len(PoolSeq)] ==
            IF n = 0 THEN <<>>
            ELSE IF n \in S THEN Append(F[n - 1], PoolSeq[n]) ELSE F[n - 1]
    IN  F[Len(PoolSeq)]

Reverse(q) == [i \in 1..Len(q) |-> q[Len(q) + 1 - i]]

\* lists of distinct spots in the order of PoolSeq
OrderedLists ==
    { Pick(S) : S \in { X \in SUBSET (1..Len(PoolSeq)) : Cardinality(X) <= MaxSpots } }

\* lists of distinct spots, in the order of PoolSeq or against it
TwiceLists == OrderedLists \cup { Reverse(q) : q \in OrderedLists }

\* The caller makes the same call twice, one after the other, with the
\* configuration of main.py:15-20; c tells whether the process serves another
\* request meanwhile, lists the spot lists the call is made with.
InitTwiceWith(c, lists) ==
    /\ args \in { a \in ArgSets : /\ a.days >= 1
                                  /\ a.spots \in lists
                                  /\ a.cfg = ScoreConfig(6, 25, 15, 2) }
    /\ pc = "idle"
    /\ t = 0
    /\ heap = EmptyHeap
    /\ base = 0 /\ best = 0 /\ current = 0 /\ candidate = 0
    /\ best_score = 0 /\ best_reasons = <<>> /\ candidate_score = 0
    /\ tape = <<>>
    /\ pos = 0
    /\ results = <<>>
    /\ todo = 2
    /\ itinerary = Itinerary("Tokyo", <<>>)
    /\ pre = Itinerary("Tokyo", <<>>)
    /\ rpc = "off"
    /\ called = NoCall
    /\ rl = NoLimiter
    /\ conc = c

InitTwice == InitTwiceWith(NoConcurrency, TwiceLists)

SpecTwice == InitTwice /\ [][Next]_vars

-----------------------------------------------------------------------------
\* Hard-distance repair (constraints.py:4, 29-64).

MAX_DAILY_DISTANCE_KM == 6

\* check_daily_distance: one record per day whose route is longer than the
\* cap, in day order (the distance counterpart of check_daily_time,
\* constraints.py:11-26).
check_daily_distance(itin) ==
    LET n == Len(itin.days)
        F[k \in 0..n] ==
            IF k = 0 THEN <<>>
            ELSE LET total == compute_day_distance_km(itin.days[k].spots)
                 IN  IF total > MAX_DAILY_DISTANCE_KM
                     THEN Append(F[k - 1], [day |-> itin.days[k].day,
                                            distance |-> total,
                                            limit |-> MAX_DAILY_DISTANCE_KM])
                     ELSE F[k - 1]
    IN  F[n]

\* Variant of RepairStep: the day at v.day gives up its last two spots, each
\* going to the day that ends nearest to it.
RepairStepDrain(itin, v) ==
    LET p == v.day
        give(it) ==
            LET spots == it.days[p].spots
                moved_spot == spots[Len(spots)]
                popped == [it EXCEPT !.days[p].spots = SubSeq(spots, 1, Len(spots) - 1)]
                others == { o \in 1..Len(it.days) : o # p /\ it.days[o].spots # <<>> }
            IN  IF others = {} THEN popped
                ELSE [popped EXCEPT !.days[CHOOSE o \in others : TRUE].spots =
                                        Append(@, moved_spot)]
    IN  IF Len(itin.days[p].spots) <= 1 THEN itin ELSE give(give(itin))

\* Variant of NearestOther: the first other day that is not empty, however far.
NearestOtherFirst(itin, p, moved) ==
    LET ok == { o \in 1..Len(itin.days) : /\ itin.days[o].day # itin.days[p].day
                                          /\ itin.days[o].spots # <<>> }
    IN  IF ok = {} THEN 0 ELSE CHOOSE o \in ok : \A q \in ok : o <= q

\* Variant of NearestOther: min_dist starts at 0 instead of infinity, so no
\* day is ever nearer.
NearestOtherFromZero(itin, p, moved) == 0

\* Lines 47-59: the position of the day, other than the one at position p
\* and not empty, whose last spot is nearest to moved; the first of them on
\* a tie; 0 (None) if there is no such day.
NearestOther(itin, p, moved) ==
    LET n == Len(itin.days)
        ok == { o \in 1..n : /\ itin.days[o].day # itin.days[p].day
                             /\ itin.days[o].spots # <<>> }
        d(o) == distance(moved, itin.days[o].spots[Len(itin.days[o].spots)])
    IN  IF ok = {} THEN 0
        ELSE CHOOSE o \in ok :
                 /\ \A q \in ok : d(o) <= d(q)
                 /\ \A q \in ok : q < o => d(q) > d(o)

\* Lines 36-62 for one violation v: the itinerary after the iteration.
RepairStep(itin, v) ==
    LET p == v.day                    \* day_idx = v["day"] - 1, 0-based
        spots == itin.days[p].spots
    IN  IF Len(spots) <= 1 THEN itin
        ELSE LET moved_spot == spots[Len(spots)]
                 popped == [itin EXCEPT !.days[p].spots = SubSeq(spots, 1, Len(spots) - 1)]
                 target == NearestOther(popped, p, moved_spot)
             IN  IF target # 0
                 THEN [popped EXCEPT !.days[target].spots = Append(@, moved_spot)]
                 ELSE popped

RECURSIVE RepairLoop(_, _)
RepairLoop(itin, violations) ==
    IF violations = <<>> THEN itin
    ELSE RepairLoop(RepairStep(itin, Head(violations)), Tail(violations))

\* Variant of repair_itinerary: days left without a spot are taken off the list.
repair_itineraryPruning(itin) ==
    LET done == RepairLoop(itin, check_daily_distance(itin))
    IN  [done EXCEPT !.days = SelectSeq(@, LAMBDA day : day.spots # <<>>)]

repair_itinerary(itin) == RepairLoop(itin, check_daily_distance(itin))

\* all ways to cut the list s into d consecutive pieces
RECURSIVE Cuts(_, _)
Cuts(s, d) ==
    IF d = 1 THEN { <<s>> }
    ELSE UNION { { <<SubSeq(s, 1, k)>> \o rest : rest \in Cuts(SubSeq(s, k + 1, Len(s)), d - 1) }
                 : k \in 0..Len(s) }

\* the itineraries of d days, numbered from 1, that hold the list s cut into
\* consecutive pieces
Arrangements(s, d) ==
    { Itinerary("Tokyo", [i \in 1..d |-> DayPlan(i, c[i], 0)]) : c \in Cuts(s, d) }

\* the caller holds an itinerary of at most maxd days, arranged in any way
InitArranged(maxd) ==
    /\ \E d \in 1..maxd : \E s \in SeqsUpTo(Pool, MaxRepairSpots) :
           itinerary \in Arrangements(s, d)
    /\ pre = itinerary
    /\ rpc = "ready"
    /\ called = NoCall
    /\ rl = NoLimiter
    /\ conc = NoConcurrency
    /\ args = [city |-> "Tokyo", spots |-> <<>>, days |-> 1,
               cfg |-> ScoreConfig(6, 25, 15, 2), trials |-> 0]
    /\ pc = "off"
    /\ t = 0
    /\ heap = EmptyHeap
    /\ base = 0 /\ best = 0 /\ current = 0 /\ candidate = 0
    /\ best_score = 0 /\ best_reasons = <<>> /\ candidate_score = 0
    /\ tape = <<>>
    /\ pos = 0
    /\ results = <<>>
    /\ todo = 0

InitRepair == InitArranged(MaxRepairDays)

InitPasses == InitArranged(MaxDays)

\* One call of repair_itinerary on the caller's itinerary, which it changes in
\* place; the caller may call it again on the result.
Repair ==
    /\ rpc # "off"
    /\ pre' = itinerary
    /\ itinerary' = repair_itinerary(itinerary)
    /\ rpc' = "repaired"
    /\ called' = CallRecord("repair_itinerary", 0, "none", repair_itinerary(itinerary))
    /\ UNCHANGED <<planVars, rl>>

NextRepair == Repair

SpecRepair == InitRepair /\ [][NextRepair]_vars

-----------------------------------------------------------------------------
\* Indoor/outdoor balancing (semantics.py:1-19, replanner.py:5-27).

OUTDOOR_CATEGORIES == {"outdoor", "beach", "park", "garden"}

INDOOR_CATEGORIES == {"indoor", "museum", "shopping", "temple"}

is_outdoor(spot) == spot.category \in OUTDOOR_CATEGORIES

is_indoor(spot) == spot.category \in INDOOR_CATEGORIES

\* list[i] for a Python index i on a list of n elements: the position counted
\* from 1, negative indices counting from the end; 0 stands for IndexError
PyIndex(n, i) ==
    IF 0 <= i /\ i < n THEN i + 1
    ELSE IF -n <= i /\ i < 0 THEN n + i + 1
    ELSE 0

\* list.remove(x): the list without its first element equal to x
ListRemove(s, x) == RemoveAt(s, CHOOSE i \in 1..Len(s) : s[i] = x /\ \A k \in 1..(i - 1) : s[k] # x)

\* Variant of FirstIndoorDay: the last such day instead of the first.
FirstIndoorDayLast(itin, p) ==
    LET ok == { o \in 1..Len(itin.days) :
                    /\ itin.days[o].day # itin.days[p].day
                    /\ SelectSeq(itin.days[o].spots, is_indoor) # <<>> }
    IN  IF ok = {} THEN 0 ELSE CHOOSE o \in ok : \A k \in ok : o >= k

\* the loop of lines 13-18: position of the first day, in list order, whose day
\* number differs from that of the day at p and that holds an indoor spot;
\* 0 when the loop runs out
FirstIndoorDay(itin, p) ==
    LET ok == { o \in 1..Len(itin.days) :
                    /\ itin.days[o].day # itin.days[p].day
                    /\ SelectSeq(itin.days[o].spots, is_indoor) # <<>> }
    IN  IF ok = {} THEN 0 ELSE CHOOSE o \in ok : \A k \in ok : o <= k

\* Variant of ReplanSwap: the indoor spot is appended to day p without being
\* removed from day o.
ReplanSwapCopy(itin, p, o) ==
    LET outdoor_spots == SelectSeq(itin.days[p].spots, is_outdoor)
        indoor_candidates == SelectSeq(itin.days[o].spots, is_indoor)
    IN  [itin EXCEPT
            !.days[p].spots = Append(ListRemove(@, outdoor_spots[1]), indoor_candidates[1]),
            !.days[o].spots = Append(@, outdoor_spots[1])]

\* lines 20-24: the first outdoor spot of day p and the first indoor spot of
\* day o change places, each appended to its new day
ReplanSwap(itin, p, o) ==
    LET outdoor_spots == SelectSeq(itin.days[p].spots, is_outdoor)
        indoor_candidates == SelectSeq(itin.days[o].spots, is_indoor)
    IN  [itin EXCEPT
            !.days[p].spots = Append(ListRemove(@, outdoor_spots[1]), indoor_candidates[1]),
            !.days[o].spots = Append(ListRemove(@, indoor_candidates[1]), outdoor_spots[1])]

\* Variant of replan_single_day: the first outdoor spot is taken out of the day
\* before another day is looked for, and put back at the end when none is found.
replan_single_dayEager(itin, day_idx) ==
    LET p == PyIndex(Len(itin.days), day_idx)
        outdoor_spots == SelectSeq(itin.days[p].spots, is_outdoor)
    IN  IF p = 0 THEN [exc |-> "IndexError", ret |-> FALSE, itin |-> itin]
        ELSE IF outdoor_spots = <<>> THEN [exc |-> "none", ret |-> FALSE, itin |-> itin]
        ELSE IF FirstIndoorDay(itin, p) = 0
             THEN [exc |-> "none", ret |-> FALSE,
                   itin |-> [itin EXCEPT !.days[p].spots =
                                Append(ListRemove(@, outdoor_spots[1]), outdoor_spots[1])]]
        ELSE [exc |-> "none", ret |-> TRUE, itin |-> ReplanSwap(itin, p, FirstIndoorDay(itin, p))]

\* replan_single_day(itinerary, day_idx). Returns [exc, ret, itin]: the
\* exception raised ("none" if none), the value returned and the itinerary,
\* which the call changes in place.
replan_single_day(itin, day_idx) ==
    LET p == PyIndex(Len(itin.days), day_idx)
    IN  IF p = 0 THEN [exc |-> "IndexError", ret |-> FALSE, itin |-> itin]
        ELSE IF SelectSeq(itin.days[p].spots, is_outdoor) = <<>>
             THEN [exc |-> "none", ret |-> FALSE, itin |-> itin]
        ELSE IF FirstIndoorDay(itin, p) = 0
             THEN [exc |-> "none", ret |-> FALSE, itin |-> itin]
        ELSE [exc |-> "none", ret |-> TRUE, itin |-> ReplanSwap(itin, p, FirstIndoorDay(itin, p))]

\* One call of replan_single_day on the caller's itinerary with any index,
\* those just outside the list included; the caller may call again.
Replan ==
    /\ rpc # "off"
    /\ \E day_idx \in (-Len(itinerary.days) - 1)..Len(itinerary.days) :
          LET r == replan_single_day(itinerary, day_idx)
          IN  /\ pre' = itinerary
              /\ itinerary' = r.itin
              /\ rpc' = "replanned"
              /\ called' = CallRecord("replan_single_day", day_idx, r.exc, r.ret)
    /\ UNCHANGED <<planVars, rl>>

NextReplan == Replan

SpecReplan == InitRepair /\ [][NextReplan]_vars

-----------------------------------------------------------------------------
\* score_itinerary called on the caller's itinerary (constraints.py:95-132).

\* One call of score_itinerary with one of the configurations; it writes each
\* day's total_distance_km and returns (score, reasons). The caller may call
\* again.
Score ==
    /\ rpc # "off"
    /\ \E cfg \in Configs :
          LET r == score_itinerary(itinerary, cfg)
          IN  /\ pre' = itinerary
              /\ itinerary' = r.itin
              /\ rpc' = "scored"
              /\ called' = CallRecord("score_itinerary", cfg, "none", <<r.score, r.reasons>>)
    /\ UNCHANGED <<planVars, rl>>

NextScore == Score

SpecScore == InitPasses /\ [][NextScore]_vars

-----------------------------------------------------------------------------
\* A caller that builds an itinerary and then post-processes it (spec 2:
\* the edit operators, the scorer, the repair pass and the balancer run on any
\* itinerary, in any order).

\* the caller has built its itinerary with build_initial_itinerary
InitPost ==
    /\ args \in { a \in ArgSets : /\ a.days >= 1
                                  /\ a.spots \in TwiceLists
                                  /\ a.cfg = ScoreConfig(6, 25, 15, 2)
                                  /\ a.trials = 0 }
    /\ itinerary = build_initial_itinerary(args.city, args.spots, args.days).itin
    /\ pre = itinerary
    /\ rpc = "built"
    /\ called = CallRecord("build_initial_itinerary", 0, "none", 0)
    /\ rl = NoLimiter
    /\ conc = NoConcurrency
    /\ pc = "off"
    /\ t = 0
    /\ heap = EmptyHeap
    /\ base = 0 /\ best = 0 /\ current = 0 /\ candidate = 0
    /\ best_score = 0 /\ best_reasons = <<>> /\ candidate_score = 0
    /\ tape = <<>>
    /\ pos = 0
    /\ results = <<>>
    /\ todo = 0

\* the caller's itinerary after a call of an edit operator that handed back r:
\* the caller binds its variable to the returned copy; when the operator
\* raised, the variable keeps the itinerary it had
Rebind(f, r) ==
    /\ pre' = itinerary
    /\ itinerary' = IF r.exc = "none" THEN r.heap[r.ref] ELSE itinerary
    /\ rpc' = "edited"
    /\ called' = CallRecord(f, 0, r.exc, 0)
    /\ UNCHANGED <<planVars, rl>>

\* itinerary = try_move_one_spot(itinerary), the generator giving any outcome
Move ==
    /\ rpc # "off"
    /\ LET h == Alloc(EmptyHeap, itinerary)
           from == FromCandidates(itinerary)
           n1 == Len(from)
       IN  \E c1 \in DrawSet(Len(tape) + 1, n1) :
           LET n2 == IF n1 = 0 THEN 0 ELSE Len(OtherDays(itinerary, from[c1 + 1]))
               n3 == IF n2 = 0 THEN 0 ELSE Len(itinerary.days[from[c1 + 1]].spots)
           IN  \E c2 \in DrawSet(Len(tape) + 2, n2) :
               \E c3 \in DrawSet(Len(tape) + 3, n3) :
                   Rebind("try_move_one_spot", try_move_one_spot(h.heap, h.ref, c1, c2, c3))

\* itinerary = try_swap_spots_between_days(itinerary), likewise
Swap ==
    /\ rpc # "off"
    /\ LET h == Alloc(EmptyHeap, itinerary)
           n == Len(itinerary.days)
           n1 == IF n < 2 THEN 0 ELSE n
           n2 == IF n < 2 THEN 0 ELSE n - 1
       IN  \E j1 \in DrawSet(Len(tape) + 1, n1) :
           \E j2 \in DrawSet(Len(tape) + 2, n2) :
           LET d1 == SampleFirst(n, j1)
               d2 == SampleSecond(n, j1, j2)
               both == n >= 2 /\ itinerary.days[d1].spots # <<>>
                              /\ itinerary.days[d2].spots # <<>>
               n3 == IF both THEN Len(itinerary.days[d1].spots) ELSE 0
               n4 == IF both THEN Len(itinerary.days[d2].spots) ELSE 0
           IN  \E ci \in DrawSet(Len(tape) + 3, n3) :
               \E cj \in DrawSet(Len(tape) + 4, n4) :
                   Rebind("try_swap_spots_between_days",
                          try_swap_spots_between_days(h.heap, h.ref, j1, j2, ci, cj))

NextPost == Move \/ Swap \/ Score \/ Repair \/ Replan

SpecPost == InitPost /\ [][NextPost]_vars

-----------------------------------------------------------------------------
\* distance called on its own (planner.py:4-5).

\* spots at the corners of the pool's grid and spots a small part of a degree
\* away from its origin, several at each place
GridSpots ==
    { Spot(n, la, lo, "park") : n \in {"P", "Q"},
                                la \in {Whole(0), Whole(4), Small(1), Small(-1)},
                                lo \in {Whole(0), Whole(3), Small(1)} }

\* nothing has been called yet and there is no itinerary
InitDistance ==
    /\ itinerary = Itinerary("Tokyo", <<>>)
    /\ pre = itinerary
    /\ rpc = "ready"
    /\ called = NoCall
    /\ rl = NoLimiter
    /\ conc = NoConcurrency
    /\ args = [city |-> "Tokyo", spots |-> <<>>, days |-> 1,
               cfg |-> ScoreConfig(6, 25, 15, 2), trials |-> 0]
    /\ pc = "off"
    /\ t = 0
    /\ heap = EmptyHeap
    /\ base = 0 /\ best = 0 /\ current = 0 /\ candidate = 0
    /\ best_score = 0 /\ best_reasons = <<>> /\ candidate_score = 0
    /\ tape = <<>>
    /\ pos = 0
    /\ results = <<>>
    /\ todo = 0

\* one call distance(a, b)
Distance ==
    /\ rpc # "off"
    /\ \E a \in GridSpots, b \in GridSpots :
          called' = CallRecord("distance", <<a, b>>, "none", distance(a, b))
    /\ rpc' = "measured"
    /\ UNCHANGED <<itinerary, pre>>
    /\ UNCHANGED <<planVars, rl>>

NextDistance == Distance

SpecDistance == InitDistance /\ [][NextDistance]_vars

-----------------------------------------------------------------------------
\* RateLimiter (rate_limiter.py:11-45): the in-memory limiter, called from
\* several threads of one process.

MaxThreads == 2     \* threads calling the limiter
MaxClock == 2       \* last tick of the clock
MaxCalls == 3       \* calls of is_allowed and of the cache made in all

Threads == 1..MaxThreads

\* request.remote_addr of the callers (rate_limiter.py:83)
Keys == {"10.0.0.1", "10.0.0.2"}

\* a thread outside is_allowed; ret is what its last call returned
IdleThread == [pc |-> "idle", key |-> "10.0.0.1", now |-> 0, count |-> 0, ret |-> TRUE]

\* the limiter after __init__ (lines 14-16), its clients using limit l and
\* window w; admitted counts, per key and timestamp, the calls that returned
\* True and are less than w old. For Redis: string tells the keys that hold
\* a string, raised that a command has raised an error, scan the names a
\* running clear_pattern has got from KEYS, client that there is a Redis
\* client (cache.py:22-60 leaves redis_client None when Redis is disabled or
\* cannot be reached).
NewLimiter(k, l, w) ==
    [kind |-> k, clock |-> 0, limit |-> l, window |-> w,
     requests |-> [key \in Keys |-> <<>>],
     ttl |-> [key \in Keys |-> -1],
     lock |-> 0,
     th |-> [i \in Threads |-> IdleThread],
     calls |-> 0,
     admitted |-> [key \in Keys |-> [ts \in 0..MaxClock |-> 0]],
     string |-> [key \in Keys |-> FALSE],
     raised |-> FALSE,
     client |-> TRUE,
     scan |-> [pc |-> "idle", keys |-> {}]]

\* a limiter of kind k ("memory": RateLimiter, "redis": RedisRateLimiter) that
\* has served no call yet, with or without a Redis client as clients tells
InitLimited(k, clients) ==
    /\ \E l \in 1..(MaxCalls - 1), w \in 1..MaxClock, c \in clients :
          rl = [NewLimiter(k, l, w) EXCEPT !.client = c]
    /\ conc = NoConcurrency
    /\ itinerary = Itinerary("Tokyo", <<>>)
    /\ pre = itinerary
    /\ rpc = "off"
    /\ called = NoCall
    /\ args = [city |-> "Tokyo", spots |-> <<>>, days |-> 1,
               cfg |-> ScoreConfig(6, 25, 15, 2), trials |-> 0]
    /\ pc = "off"
    /\ t = 0
    /\ heap = EmptyHeap
    /\ base = 0 /\ best = 0 /\ current = 0 /\ candidate = 0
    /\ best_score = 0 /\ best_reasons = <<>> /\ candidate_score = 0
    /\ tape = <<>>
    /\ pos = 0
    /\ results = <<>>
    /\ todo = 0

InitLimiter == InitLimited("memory", {TRUE})

\* everything but the limiter
restVars == <<planVars, repairVars>>

\* time.time() moves on by one; a Redis key whose time to live is over is
\* deleted; admitted calls that have become `window` old are forgotten
Tick ==
    /\ rl.kind # "none"
    /\ rl.clock < MaxClock
    /\ rl' = [rl EXCEPT
                !.clock = @ + 1,
                !.requests = [key \in Keys |->
                                 IF rl.ttl[key] # -1 /\ rl.ttl[key] <= rl.clock + 1
                                 THEN <<>> ELSE rl.requests[key]],
                !.ttl = [key \in Keys |->
                            IF rl.ttl[key] <= rl.clock + 1 THEN -1 ELSE rl.ttl[key]],
                !.string = [key \in Keys |->
                               IF rl.ttl[key] # -1 /\ rl.ttl[key] <= rl.clock + 1
                               THEN FALSE ELSE rl.string[key]],
                !.admitted = [key \in Keys |-> [ts \in 0..MaxClock |->
                                 IF rl.clock + 1 - ts < rl.window
                                 THEN rl.admitted[key][ts] ELSE 0]]]
    /\ UNCHANGED restVars

\* line 30: a thread enters is_allowed(key, limit, window) and reads the clock
Enter(i) ==
    /\ rl.kind = "memory"
    /\ rl.th[i].pc = "idle"
    /\ rl.calls < MaxCalls
    /\ \E key \in Keys :
          rl' = [rl EXCEPT !.calls = @ + 1,
                           !.th[i] = [pc |-> "entered", key |-> key, now |-> rl.clock,
                                      count |-> 0, ret |-> rl.th[i].ret]]
    /\ UNCHANGED restVars

\* line 32: with self.lock
Acquire(i) ==
    /\ rl.kind = "memory"
    /\ rl.th[i].pc = "entered"
    /\ rl.lock = 0
    /\ rl' = [rl EXCEPT !.lock = i, !.th[i].pc = "locked"]
    /\ UNCHANGED restVars

\* the timestamps of the list q less than w older than now (lines 34-37)
CleanOld(q, now, w) == SelectSeq(q, LAMBDA req_time : now - req_time < w)

\* lines 34-37
Clean(i) ==
    /\ rl.kind = "memory"
    /\ rl.th[i].pc = "locked"
    /\ rl' = [rl EXCEPT
                !.requests[rl.th[i].key] = CleanOld(@, rl.th[i].now, rl.window),
                !.th[i].pc = "cleaned"]
    /\ UNCHANGED restVars

\* lines 40-45: what is_allowed returns for a list of n recorded requests
Allowed(n, limit) == ~(n >= limit)

\* lines 40-45, and the lock released on the way out
Decide(i) ==
    /\ rl.kind = "memory"
    /\ rl.th[i].pc = "cleaned"
    /\ LET key == rl.th[i].key
           now == rl.th[i].now
           ok == Allowed(Len(rl.requests[key]), rl.limit)
       IN  rl' = [rl EXCEPT
                    !.requests[key] = IF ok THEN Append(@, now) ELSE @,
                    !.admitted[key][now] = IF ok /\ rl.clock - now < rl.window
                                           THEN @ + 1 ELSE @,
                    !.lock = 0,
                    !.th[i].pc = "idle",
                    !.th[i].ret = ok]
    /\ UNCHANGED restVars

NextLimiter == Tick \/ \E i \in Threads : Enter(i) \/ Acquire(i) \/ Clean(i) \/ Decide(i)

SpecLimiter == InitLimiter /\ [][NextLimiter]_vars

-----------------------------------------------------------------------------
\* RedisRateLimiter (rate_limiter.py:103-137) on the Redis database of the
\* cache (rate_limiter.py:144-148, cache.py:37-47). rl.requests[key] is the
\* sorted set rate_limit:<key>, its members str(now) listed by score;
\* rl.string[key] tells that the key holds a string instead; rl.ttl[key] is
\* the time at which Redis deletes the key, -1 for none. Redis keeps no empty
\* sorted set: a key exists while it holds a member or a string, and a key
\* that goes takes its time to live with it. Each Redis command is one step:
\* callers in several threads or processes are interleaved between commands.
\* RedisCache.get and get_stats (cache.py:75-89, 150-180) only read.

\* ZREMRANGEBYSCORE: the members with min <= score <= max are removed
zremrangebyscore(q, min, max) == SelectSeq(q, LAMBDA score : ~(min <= score /\ score <= max))

\* ZCARD
zcard(q) == Len(q)

\* ZADD {str(now): now}: a member already in the set is not added again
zadd(q, now) == IF \E k \in 1..Len(q) : q[k] = now THEN q ELSE Append(q, now)

\* the key exists in the database r
Exists(r, key) == r.requests[key] # <<>> \/ r.string[key]

InitRedis == InitLimited("redis", BOOLEAN)

\* Lines 111-116: a caller enters is_allowed(key, limit, window); without a
\* client it returns True at once, with one it reads the clock.
RedisEnter(i) ==
    /\ rl.kind = "redis"
    /\ rl.th[i].pc = "idle"
    /\ rl.calls < MaxCalls
    /\ \E key \in Keys :
          IF rl.client
          THEN rl' = [rl EXCEPT
                        !.calls = @ + 1,
                        !.th[i] = [pc |-> "entered", key |-> key, now |-> rl.clock,
                                   count |-> 0, ret |-> rl.th[i].ret]]
          ELSE rl' = [rl EXCEPT
                        !.calls = @ + 1,
                        !.admitted[key][rl.clock] = @ + 1,
                        !.th[i] = [pc |-> "idle", key |-> key, now |-> rl.clock,
                                   count |-> 0, ret |-> TRUE]]
    /\ UNCHANGED restVars

\* Lines 134-137: a sorted-set command on a key that holds a string raises
\* WRONGTYPE; the caller prints the error and returns True.
FailOpen(i) ==
    LET key == rl.th[i].key
        now == rl.th[i].now
    IN  rl' = [rl EXCEPT
                 !.raised = TRUE,
                 !.admitted[key][now] = IF rl.clock - now < rl.window
                                        THEN @ + 1 ELSE @,
                 !.th[i].pc = "idle",
                 !.th[i].ret = TRUE]

\* the time to live of a key that held ttl and now holds the set q
ttl_of(q, ttl) == IF q = <<>> THEN -1 ELSE ttl

\* EXPIRE key seconds at time clock: nothing happens to a key that does not
\* exist
expire(exists, ttl, clock, seconds) == IF exists THEN clock + seconds ELSE ttl

\* line 120: remove old entries; the key goes with its last member
RedisRemoveOld(i) ==
    /\ rl.kind = "redis"
    /\ rl.th[i].pc = "entered"
    /\ LET key == rl.th[i].key
           q == zremrangebyscore(rl.requests[key], 0, rl.th[i].now - rl.window)
       IN  IF rl.string[key] THEN FailOpen(i)
           ELSE rl' = [rl EXCEPT
                         !.requests[key] = q,
                         !.ttl[key] = ttl_of(q, @),
                         !.th[i].pc = "removed"]
    /\ UNCHANGED restVars

\* line 123: count the requests in the window
RedisCount(i) ==
    /\ rl.kind = "redis"
    /\ rl.th[i].pc = "removed"
    /\ IF rl.string[rl.th[i].key] THEN FailOpen(i)
       ELSE rl' = [rl EXCEPT !.th[i].count = zcard(rl.requests[rl.th[i].key]),
                             !.th[i].pc = "counted"]
    /\ UNCHANGED restVars

\* lines 125-129: return False at the limit, add the current request otherwise
RedisAdd(i) ==
    /\ rl.kind = "redis"
    /\ rl.th[i].pc = "counted"
    /\ IF rl.th[i].count >= rl.limit
       THEN rl' = [rl EXCEPT !.th[i].pc = "idle", !.th[i].ret = FALSE]
       ELSE IF rl.string[rl.th[i].key] THEN FailOpen(i)
       ELSE rl' = [rl EXCEPT
                     !.requests[rl.th[i].key] = zadd(@, rl.th[i].now),
                     !.th[i].pc = "added"]
    /\ UNCHANGED restVars

\* lines 130-132: the key expires `window` seconds from now; return True
RedisExpire(i) ==
    /\ rl.kind = "redis"
    /\ rl.th[i].pc = "added"
    /\ LET key == rl.th[i].key
           now == rl.th[i].now
       IN  rl' = [rl EXCEPT
                    !.ttl[key] = expire(Exists(rl, key), @, rl.clock, rl.window),
                    !.admitted[key][now] = IF rl.clock - now < rl.window
                                           THEN @ + 1 ELSE @,
                    !.th[i].pc = "idle",
                    !.th[i].ret = TRUE]
    /\ UNCHANGED restVars

\* the database r after DEL of the keys S
Del(r, S) ==
    [r EXCEPT
       !.requests = [key \in Keys |-> IF key \in S THEN <<>> ELSE r.requests[key]],
       !.string = [key \in Keys |-> IF key \in S THEN FALSE ELSE r.string[key]],
       !.ttl = [key \in Keys |-> IF key \in S THEN -1 ELSE r.ttl[key]]]

\* The cache's own calls act on the database the sorted sets live in; without
\* a client each of them returns at its first line.
\* RedisCache.set(key, value, ttl) (cache.py:91-106) on the key of a caller:
\* SETEX puts a string in the place of whatever the key held
set ==
    /\ rl.kind = "redis"
    /\ rl.client
    /\ rl.calls < MaxCalls
    /\ \E key \in Keys, ttl \in 1..(MaxClock + 1) :
          rl' = [rl EXCEPT !.calls = @ + 1,
                           !.requests[key] = <<>>,
                           !.string[key] = TRUE,
                           !.ttl[key] = rl.clock + ttl]
    /\ UNCHANGED restVars

\* RedisCache.delete(key) (cache.py:108-119) on the key of a caller
delete ==
    /\ rl.kind = "redis"
    /\ rl.client
    /\ rl.calls < MaxCalls
    /\ \E key \in Keys : Exists(rl, key) /\ rl' = [Del(rl, {key}) EXCEPT !.calls = @ + 1]
    /\ UNCHANGED restVars

\* RedisCache.clear_pattern(pattern) (cache.py:121-135), also reached through
\* invalidate_cache (cache.py:227-235), one call at a time. Line 127: KEYS
\* gives the existing keys among the set S that the pattern matches; with
\* none found the call is over (line 128).
clear_pattern_keys ==
    /\ rl.kind = "redis"
    /\ rl.client
    /\ rl.scan.pc = "idle"
    /\ rl.calls < MaxCalls
    /\ \E S \in SUBSET Keys :
          LET keys == { key \in S : Exists(rl, key) }
          IN  /\ keys # {}
              /\ rl' = [rl EXCEPT !.calls = @ + 1,
                                  !.scan = [pc |-> "found", keys |-> keys]]
    /\ UNCHANGED restVars

\* line 129: DEL of the names found
clear_pattern_delete ==
    /\ rl.kind = "redis"
    /\ rl.scan.pc = "found"
    /\ rl' = [Del(rl, rl.scan.keys) EXCEPT !.scan = [pc |-> "idle", keys |-> {}]]
    /\ UNCHANGED restVars

\* RedisCache.clear_all() (cache.py:137-148): FLUSHDB
clear_all ==
    /\ rl.kind = "redis"
    /\ rl.client
    /\ rl.calls < MaxCalls
    /\ \E key \in Keys : Exists(rl, key)
    /\ rl' = [Del(rl, Keys) EXCEPT !.calls = @ + 1]
    /\ UNCHANGED restVars

NextRedis ==
    \/ Tick
    \/ \E i \in Threads :
          RedisEnter(i) \/ RedisRemoveOld(i) \/ RedisCount(i) \/ RedisAdd(i)
              \/ RedisExpire(i)
    \/ set \/ delete \/ clear_pattern_keys \/ clear_pattern_delete \/ clear_all

SpecRedis == InitRedis /\ [][NextRedis]_vars

-----------------------------------------------------------------------------
\* nearest_neighbor_path called on its own (planner.py:86-96, and the same
\* function at 39-55).

\* one call nearest_neighbor_path(spots)
Path ==
    /\ rpc # "off"
    /\ \E spots \in SeqsUpTo(Pool, MaxRepairSpots) :
          called' = CallRecord("nearest_neighbor_path", spots, "none",
                               nearest_neighbor_path(spots))
    /\ rpc' = "routed"
    /\ UNCHANGED <<itinerary, pre>>
    /\ UNCHANGED <<planVars, rl>>

NextPath == Path

SpecPath == InitDistance /\ [][NextPath]_vars

-----------------------------------------------------------------------------
\* plan_itinerary, the chunked construction (planner.py:7-36).

\* spots_sorted[i:i + chunk_size] for the i-th chunk, counted from 1
ChunkAt(ss, chunk_size, i) ==
    SubSeq(ss, (i - 1) * chunk_size + 1,
           IF i * chunk_size <= Len(ss) THEN i * chunk_size ELSE Len(ss))

\* chunk_size = max(1, len(spots_sorted) // days) (line 12); Python's //
\* rounds down, so a negative days gives at most 0 and max makes it 1
ChunkSize(n, days) == IF days < 0 THEN 1 ELSE Max(1, n \div days)

\* len(chunks[:days]) for n chunks: the first days of them, or all but the
\* last -days when days is negative
SliceLen(n, days) ==
    IF days >= 0 THEN (IF days < n THEN days ELSE n)
    ELSE Max(0, n + days)

\* Returns [exc, itin]. days = 0 fails at the division of line 12.
plan_itinerary(city, spots, days) ==
    IF days = 0 THEN [exc |-> "ZeroDivisionError", itin |-> Itinerary(city, <<>>)]
    ELSE LET spots_sorted == sorted(spots)
             chunk_size == ChunkSize(Len(spots_sorted), days)
             chunks == (Len(spots_sorted) + chunk_size - 1) \div chunk_size
             ordered(i) == nearest_neighbor_path(ChunkAt(spots_sorted, chunk_size, i))
         IN  [exc |-> "none",
              itin |-> Itinerary(city,
                          [i \in 1..SliceLen(chunks, days) |->
                              DayPlan(i, ordered(i), compute_day_distance_km(ordered(i)))])]

\* one call plan_itinerary(city, spots, days)
PlanChunked ==
    /\ rpc # "off"
    /\ \E spots \in SeqsUpTo(Pool, MaxSpots), days \in (-1)..MaxDays :
          LET r == plan_itinerary("Tokyo", spots, days)
          IN  called' = CallRecord("plan_itinerary", [spots |-> spots, days |-> days],
                                   r.exc, r.itin)
    /\ rpc' = "chunked"
    /\ UNCHANGED <<itinerary, pre>>
    /\ UNCHANGED <<planVars, rl>>

NextChunked == PlanChunked

SpecChunked == InitDistance /\ [][NextChunked]_vars

-----------------------------------------------------------------------------
\* Two requests in one process. `random` is the module-level generator of the
\* interpreter, so the random.seed(0) of line 177 and the draws of lines 187,
\* 127-131 and 151-156 of another request act on the generator this call
\* draws from. The caller's first call runs alone; from its return on, the
\* process serves another request for the same plan, whose thread runs
\* before and during the caller's second call.
\*
\* The generator is CPython's Mersenne Twister. random.seed(0) puts it at the
\* start of a fixed sequence of 32-bit words, and pos counts the words taken
\* since. random.random() takes two words in one step; random.choice,
\* random.randrange and each pick of random.sample call _randbelow(n), which
\* takes one word per getrandbits(n.bit_length()) and asks again as long as
\* the value is not below n. Each access to the generator is one step; a
\* thread can be switched out between any two of them, inside _randbelow too.
\* The words are known ahead, so tape stays empty here.
\*
\* A draw has a kind: 0 for random.random() compared with 0.6 (line 187), and
\* n >= 1 for _randbelow(n).

\* the first words after random.seed(0), each without its low 5 bits
MT_seed0 ==
    << 113336382, 51706749, 101730917, 119486516, 56448162, 5433721,
       34751217, 129582503, 68622131, 65220111, 54349339, 123243325,
       105199665, 111380971, 40709944, 129895916, 63967760, 48056573,
       78300211, 119676667, 121884848, 29318886, 67737923, 18693000,
       37827635, 18756361, 101442323, 12727969, 82996081, 107293997,
       33622391, 132507686, 122104075, 71479480, 131907233, 94646617,
       108745516, 80785928, 121086664, 19724825, 41627302, 13255791,
       97956359, 9897541, 120640032, 114148664, 91802769, 44318320,
       63369922, 75136920, 13515887, 47485068, 58273557, 42439202,
       81991861, 85956173, 122542269, 27444538, 129735710, 74158472,
       64023168, 59417296, 116139932, 69974900 >>

\* int.bit_length()
RECURSIVE bit_length(_)
bit_length(n) == IF n = 0 THEN 0 ELSE 1 + bit_length(n \div 2)

\* getrandbits(k), k <= 27, with p words taken: the top k bits of the next word
getrandbits(p, k) == MT_seed0[p + 1] \div 2^(27 - k)

\* random.random() < 0.6 with p words taken. random() is ((a >> 5) * 2^26 +
\* (b >> 6)) / 2^53 for the next two words a and b, and the double 0.6 is
\* (80530636 * 2^26 + 53687091) / 2^53.
random_below_06(p) ==
    LET a == MT_seed0[p + 1]
        b == MT_seed0[p + 2] \div 2
    IN  a < 80530636 \/ (a = 80530636 /\ b < 53687091)

\* the request waits to be served
OtherWaiting == [NoOther EXCEPT !.pc = "idle"]

InitConcurrent ==
    InitTwiceWith([NoConcurrency EXCEPT !.other = OtherWaiting], OrderedLists)

\* d[i], or 0 for a draw that was not made
At(d, i) == IF i <= Len(d) THEN d[i] ELSE 0

\* The kind of the draw that follows the draws d of one iteration on the
\* itinerary itin, -1 if the iteration makes no further draw: line 187, then
\* lines 127, 128, 131 of the move or lines 151 (two picks), 155, 156 of the
\* swap. random.choice of an empty list raises before it draws.
NextKind(itin, d) ==
    LET n == Len(itin.days)
        from == FromCandidates(itin)
    IN  IF d = <<>> THEN 0
        ELSE IF d[1] = 0
        THEN IF from = <<>> THEN -1
             ELSE IF Len(d) = 1 THEN Len(from)
             ELSE LET src == from[d[2] + 1]
                      others == OtherDays(itin, src)
                  IN  IF others = <<>> THEN -1
                      ELSE IF Len(d) = 2 THEN Len(others)
                      ELSE IF Len(d) = 3 THEN Len(itin.days[src].spots)
                      ELSE -1
        ELSE IF n < 2 THEN -1
             ELSE IF Len(d) = 1 THEN n
             ELSE IF Len(d) = 2 THEN n - 1
             ELSE LET d1 == SampleFirst(n, d[2])
                      d2 == SampleSecond(n, d[2], d[3])
                  IN  IF itin.days[d1].spots = <<>> \/ itin.days[d2].spots = <<>>
                      THEN -1
                      ELSE IF Len(d) = 3 THEN Len(itin.days[d1].spots)
                      ELSE IF Len(d) = 4 THEN Len(itin.days[d2].spots)
                      ELSE -1

\* what the edit operator chosen by d[1] does with the draws d (lines 187-190)
Edit(h, r, d) ==
    IF d[1] = 0
    THEN try_move_one_spot(h, r, At(d, 2), At(d, 3), At(d, 4))
    ELSE try_swap_spots_between_days(h, r, At(d, 2), At(d, 3), At(d, 4), At(d, 5))

\* words one access of kind k takes from the generator
Words(k) == IF k = 0 THEN 2 ELSE 1

\* The draws d of an iteration after one access of kind k with p words taken:
\* line 187, or one round of the loop of _randbelow(k), whose value is a draw
\* only if it is below k.
Accessed(d, k, p) ==
    IF k = 0 THEN Append(d, IF random_below_06(p) THEN 0 ELSE 1)
    ELSE LET r == getrandbits(p, bit_length(k))
         IN  IF r < k THEN Append(d, r) ELSE d

\* One access to the generator in the caller's running iteration (line 187,
\* or one getrandbits of line 127, 128, 131, 151, 155 or 156).
Draw ==
    /\ pc = "loop"
    /\ LoopContinues(t, args.trials)
    /\ LET k == NextKind(heap[current], conc.drawn)
       IN  /\ k # -1
           /\ pos' = pos + Words(k)
           /\ conc' = [conc EXCEPT !.drawn = Accessed(@, k, pos)]
    /\ UNCHANGED <<args, pc, t, heap, base, best, current, candidate, best_score,
                   best_reasons, candidate_score, tape, results, todo,
                   itinerary, pre, rpc, called, rl>>

\* The rest of the caller's iteration once its draws are made: the edit of
\* the copy and lines 192-199.
EndTrial ==
    /\ pc = "loop"
    /\ LoopContinues(t, args.trials)
    /\ NextKind(heap[current], conc.drawn) = -1
    /\ AcceptOrReject(Edit(heap, current, conc.drawn))
    /\ conc' = [conc EXCEPT !.drawn = <<>>]
    /\ UNCHANGED <<args, tape, pos, todo, itinerary, pre, rpc, called, rl>>

\* The other request reaches line 177 and goes on to the loop (lines 177-185).
OtherSeed ==
    /\ Len(results) = 1
    /\ conc.other.pc = "idle"
    /\ pos' = random_seed(pos)
    /\ LET b == build_initial_itinerary(args.city, args.spots, args.days)
           sc == score_itinerary(b.itin, args.cfg)
       IN  conc' = [conc EXCEPT
                      !.other = IF b.exc # "none" \/ ~LoopContinues(0, args.trials)
                                THEN [NoOther EXCEPT !.pc = "done"]
                                ELSE [pc |-> "loop", t |-> 0, current |-> sc.itin,
                                      best_score |-> sc.score, drawn |-> <<>>]]
    /\ UNCHANGED <<args, pc, t, heap, base, best, current, candidate, best_score,
                   best_reasons, candidate_score, tape, results, todo,
                   itinerary, pre, rpc, called, rl>>

\* The frame o of the other request when the draws of its iteration are d: if
\* the iteration has no further draw, its edit and its lines 192-199 follow.
OtherAfter(o, d) ==
    IF NextKind(o.current, d) # -1 THEN [o EXCEPT !.drawn = d]
    ELSE LET al == Alloc(EmptyHeap, o.current)
             r == Edit(al.heap, al.ref, d)
         IN  IF r.exc # "none" THEN [NoOther EXCEPT !.pc = "done"]
             ELSE LET sc == score_itinerary(r.heap[r.ref], args.cfg)
                      acc == Accept(sc.score, o.best_score)
                  IN  IF ~LoopContinues(o.t + 1, args.trials)
                      THEN [NoOther EXCEPT !.pc = "done"]
                      ELSE [pc |-> "loop", t |-> o.t + 1,
                            current |-> IF acc THEN sc.itin ELSE o.current,
                            best_score |-> IF acc THEN sc.score ELSE o.best_score,
                            drawn |-> <<>>]

\* One access to the generator by the other request, once the caller's first
\* call has returned.
OtherDraw ==
    /\ Len(results) = 1
    /\ conc.other.pc = "loop"
    /\ LET o == conc.other
           k == NextKind(o.current, o.drawn)
       IN  /\ pos' = pos + Words(k)
           /\ conc' = [conc EXCEPT !.other = OtherAfter(o, Accessed(o.drawn, k, pos))]
    /\ UNCHANGED <<args, pc, t, heap, base, best, current, candidate, best_score,
                   best_reasons, candidate_score, tape, results, todo,
                   itinerary, pre, rpc, called, rl>>

NextConcurrent == Call \/ Draw \/ EndTrial \/ Return \/ OtherSeed \/ OtherDraw

SpecConcurrent == InitConcurrent /\ [][NextConcurrent]_vars

-----------------------------------------------------------------------------
\* Properties.

\* the spots of the itinerary at address a are the input spots, each once
HoldsInput(a) == BagOf(AllSpots(heap[a])) = BagOf(args.spots)

\* the seed itinerary and its score, computed apart from the call
SeedScored ==
    score_itinerary(build_initial_itinerary(args.city, args.spots, args.days).itin, args.cfg)

\* a step that completes one loop iteration
TrialStep == pc = "loop" /\ pc' = "loop" /\ t' = t + 1

\* C1: for every spot list and days >= 1 the itinerary that
\* build_initial_itinerary returns (the local base) holds every input spot
\* exactly once over all its days: nothing dropped, duplicated or shared.
C1_BuildIsPartition ==
    (pc = "loop" /\ args.days >= 1) =>
        /\ Len(heap[base].days) = args.days
        /\ HoldsInput(base)

C1_Witness ==
    /\ pc = "loop" /\ t = 0
    /\ args.days = 2
    /\ Len(args.spots) = 3
    /\ args.spots[1] = args.spots[3]
    /\ Len(heap[base].days[1].spots) = 2
    /\ Len(heap[base].days[2].spots) = 1
    /\ HoldsInput(base)

\* C2: during plan_itinerary_soft_constraints, after any number of trials,
\* current, best and the candidate the edit operator returned each hold
\* exactly the input spots, each spot in one day.
C2_TrialsKeepPartition ==
    pc = "loop" =>
        \A a \in {current, best, candidate} \ {0} : HoldsInput(a)

C2_Witness ==
    /\ pc = "loop" /\ t = 2
    /\ candidate # 0 /\ best # base /\ candidate # best
    /\ \E i \in 1..Len(heap[base].days) :
           /\ BagOf(heap[candidate].days[i].spots) # BagOf(heap[base].days[i].spots)
           /\ BagOf(heap[best].days[i].spots) # BagOf(heap[base].days[i].spots)
    /\ HoldsInput(candidate) /\ HoldsInput(best)

\* C3: best_score never goes up from one trial to the next, so the score
\* returned with trials = n + 1 (the run with trials = n, the generator
\* yielding the same values after seed(0), plus one iteration) is at most the
\* one returned with trials = n, and a returned score is at most the score of
\* the seed itinerary.
C3_ScoreNonIncreasing ==
    [][ /\ TrialStep => best_score' <= best_score
        /\ (pc = "loop" /\ Len(results') > Len(results)
               /\ results'[Len(results')].exc = "none")
             => /\ results'[Len(results')].score <= SeedScored.score
                /\ results'[Len(results')].score = best_score ]_vars

C3_Witness ==
    /\ Len(results) = 1
    /\ results[1].exc = "none"
    /\ args.trials = 2
    /\ results[1].score < SeedScored.score

\* C4: with trials = 0 the call returns the itinerary of
\* build_initial_itinerary(city, spots, days), as score_itinerary leaves it,
\* with the score and the reasons score_itinerary gives for it under cfg.
C4_ZeroTrialsReturnsSeed ==
    \A k \in 1..Len(results) :
        (args.trials = 0 /\ results[k].exc = "none") =>
            /\ results[k].itinerary = SeedScored.itin
            /\ results[k].score = SeedScored.score
            /\ results[k].reasons = SeedScored.reasons

C4_Witness ==
    /\ Len(results) = 1
    /\ args.trials = 0 /\ args.days = 2 /\ Len(args.spots) = 3
    /\ results[1].exc = "none"
    /\ results[1].reasons # <<>>
    /\ results[1].itinerary = SeedScored.itin

\* C5: two calls with the same city, spots, days, cfg and trials, one after
\* the other, hand back the same thing: the same itinerary (same spots, same
\* days, same order), the same score and the same reasons.
C5_SecondCallSame ==
    Len(results) = 2 => results[2] = results[1]

C5_Witness ==
    /\ Len(results) = 2
    /\ results[1].exc = "none"
    /\ args.trials = 2
    /\ results[1].score < SeedScored.score
    /\ results[2] = results[1]

\* C6: in every trial the candidate becomes current and best exactly when
\* candidate_score < best_score; otherwise current, best, best_score and
\* best_reasons stay as they are; after the trial current and best are the
\* same object and best_score is the score of best.
C6_StrictAcceptance ==
    [][ TrialStep =>
          /\ (candidate_score' < best_score) <=> (best' = candidate' /\ current' = candidate')
          /\ ~(candidate_score' < best_score) =>
                 /\ best' = best /\ current' = current
                 /\ best_score' = best_score /\ best_reasons' = best_reasons
                 /\ heap'[best] = heap[best]
          /\ current' = best'
          /\ best_score' = score_itinerary(heap'[best'], args.cfg).score
          /\ best_reasons' = score_itinerary(heap'[best'], args.cfg).reasons ]_vars

\* a candidate of the same score as best, arranged differently, was rejected
C6_Witness ==
    /\ pc = "loop" /\ t >= 1
    /\ candidate # 0 /\ candidate # best
    /\ candidate_score = best_score
    /\ heap[candidate] # heap[best]
    /\ current = best

\* C7: try_move_one_spot and try_swap_spots_between_days leave the itinerary
\* they are given as it was; so does scoring the candidate they return.
C7_InputUntouched ==
    [][ (TrialStep /\ current \in DOMAIN heap') => heap'[current] = heap[current] ]_vars

\* a candidate that differs from current was made and rejected
C7_Witness ==
    /\ pc = "loop" /\ t >= 1
    /\ candidate # 0 /\ candidate # current
    /\ candidate_score > best_score
    /\ \E i \in 1..Len(heap[current].days) :
           heap[candidate].days[i].spots # heap[current].days[i].spots
    /\ current = base

\* C8: an edit operator without an eligible day hands back its input and
\* raises nothing, so for days >= 1 no call raises.
C8_NoEligibleDayIsNoOp ==
    args.days >= 1 => \A k \in 1..Len(results) : results[k].exc = "none"

\* C9: for days <= 0 the call signals an error; it never returns an
\* itinerary (of no days).
C9_NonPositiveDaysRejected ==
    args.days <= 0 => \A k \in 1..Len(results) : results[k].exc # "none"

\* every pop of the pass over the violations vs, from itin on, finds another
\* day that is not empty
RECURSIVE EveryPopHasDestination(_, _)
EveryPopHasDestination(itin, vs) ==
    \/ vs = <<>>
    \/ /\ \/ Len(itin.days[Head(vs).day].spots) <= 1
          \/ \E o \in 1..Len(itin.days) :
                 o # Head(vs).day /\ itin.days[o].spots # <<>>
       /\ EveryPopHasDestination(RepairStep(itin, Head(vs)), Tail(vs))

\* C10: when every spot popped by a pass of repair_itinerary finds another
\* non-empty day, the spots of the itinerary after the pass are the spots
\* before it, each as often as before.
C10_RepairKeepsPartition ==
    (rpc = "repaired" /\ EveryPopHasDestination(pre, check_daily_distance(pre))) =>
        BagOf(AllSpots(itinerary)) = BagOf(AllSpots(pre))

\* a pass that moved the last spot of a violating day to another day
C10_Witness ==
    /\ rpc = "repaired"
    /\ Len(check_daily_distance(pre)) = 1
    /\ Len(pre.days) = 2
    /\ \E p \in 1..2 : Len(itinerary.days[p].spots) = Len(pre.days[p].spots) + 1
    /\ EveryPopHasDestination(pre, check_daily_distance(pre))
    /\ itinerary # pre
    /\ BagOf(AllSpots(itinerary)) = BagOf(AllSpots(pre))

\* the day at position p of itin has another day that is not empty
HasOtherNonEmpty(itin, p) ==
    \E o \in 1..Len(itin.days) : o # p /\ itin.days[o].spots # <<>>

\* C11: when a pass of repair_itinerary removes a spot and finds no day to
\* take it, the caller is told: the call raises, or hands back something
\* other than the bare itinerary.
C11_DropIsSignalled ==
    (rpc = "repaired" /\ Len(AllSpots(itinerary)) < Len(AllSpots(pre))) =>
        (called.exc # "none" \/ called.ret # itinerary)

\* how many elements of the list s1 have no partner left in the list s2
MissingFrom(s1, s2) ==
    LET lost(x) == Cardinality({ i \in 1..Len(s1) : s1[i] = x })
                   - Cardinality({ i \in 1..Len(s2) : s2[i] = x })
        F[n \in 0..Len(s1)] ==
            IF n = 0 THEN 0
            ELSE F[n - 1] + (IF s1[n] \notin { s1[k] : k \in 1..(n - 1) } /\ lost(s1[n]) > 0
                             THEN lost(s1[n]) ELSE 0)
    IN  F[Len(s1)]

\* every iteration of the pass over the violations vs, from itin on, leaves a
\* day of at most one spot alone and takes at most one spot from its day and
\* none from the others
RECURSIVE EveryStepTakesOne(_, _)
EveryStepTakesOne(itin, vs) ==
    \/ vs = <<>>
    \/ LET p == Head(vs).day
           after == RepairStep(itin, Head(vs))
       IN  /\ Len(itin.days[p].spots) <= 1 => after = itin
           /\ Len(after.days[p].spots) >= Len(itin.days[p].spots) - 1
           /\ \A o \in 1..Len(itin.days) :
                  o # p => Len(after.days[o].spots) >= Len(itin.days[o].spots)
           /\ \A k \in 2..Len(vs) : vs[k].day # p
           /\ EveryStepTakesOne(after, Tail(vs))

\* C12: a pass of repair_itinerary takes no spot from a day of one spot or
\* none, takes at most one spot from each day reported as violating and none
\* from the other days; a day that was not empty before the pass is not
\* empty after it.
C12_RepairTakesAtMostOne ==
    rpc = "repaired" =>
        /\ EveryStepTakesOne(pre, check_daily_distance(pre))
        /\ \A p \in 1..Len(pre.days) :
               /\ pre.days[p].spots # <<>> => itinerary.days[p].spots # <<>>
               /\ MissingFrom(pre.days[p].spots, itinerary.days[p].spots)
                      <= (IF \E k \in 1..Len(check_daily_distance(pre)) :
                                 check_daily_distance(pre)[k].day = p
                          THEN 1 ELSE 0)

\* a pass over two non-empty days, one of them violating: it gave up exactly
\* one spot and the other day gave up none
C12_Witness ==
    /\ rpc = "repaired"
    /\ Len(pre.days) = 2
    /\ Len(check_daily_distance(pre)) = 1
    /\ \A p \in 1..2 :
           /\ pre.days[p].spots # <<>>
           /\ MissingFrom(pre.days[p].spots, itinerary.days[p].spots)
                  = (IF check_daily_distance(pre)[1].day = p THEN 1 ELSE 0)

\* C13: every day reported as violating before the pass that has another
\* non-empty day to give its spot to is, after the pass, strictly shorter than
\* before or no longer reported.
C13_RepairShortensDay ==
    rpc = "repaired" =>
        \A k \in 1..Len(check_daily_distance(pre)) :
            LET v == check_daily_distance(pre)[k]
            IN  HasOtherNonEmpty(pre, v.day) =>
                    \/ compute_day_distance_km(itinerary.days[v.day].spots) < v.distance
                    \/ \A j \in 1..Len(check_daily_distance(itinerary)) :
                           check_daily_distance(itinerary)[j].day # v.day

\* the call just made was replan_single_day on an existing day, whose position is
ReplannedDay == PyIndex(Len(pre.days), called.arg)

\* positions in the list s of the spots whose category is in the set cats
PositionsOf(s, cats) == { i \in 1..Len(s) : s[i].category \in cats }

\* positions of the days other than p that hold a spot of a category in cats
DaysWith(itin, p, cats) ==
    { o \in 1..Len(itin.days) : o # p /\ PositionsOf(itin.days[o].spots, cats) # {} }

Least(S) == CHOOSE x \in S : \A y \in S : x <= y

\* C14: when day d holds an outdoor spot and another day holds an indoor spot,
\* replan_single_day returns True; day d has then lost its first outdoor spot
\* and gained, at its end, the first indoor spot of the first other day that
\* has one, so it holds an indoor spot; that other day has lost that spot and
\* gained the outdoor one, and the remaining days are as they were.
C14_ReplanSwapsFirsts ==
    (/\ rpc = "replanned" /\ called.exc = "none"
     /\ PositionsOf(pre.days[ReplannedDay].spots, {"outdoor", "beach", "park", "garden"}) # {}
     /\ DaysWith(pre, ReplannedDay, {"indoor", "museum", "shopping", "temple"}) # {}) =>
        LET d == ReplannedDay
            o == Least(DaysWith(pre, d, {"indoor", "museum", "shopping", "temple"}))
            i == Least(PositionsOf(pre.days[d].spots, {"outdoor", "beach", "park", "garden"}))
            j == Least(PositionsOf(pre.days[o].spots, {"indoor", "museum", "shopping", "temple"}))
        IN  /\ called.ret = TRUE
            /\ PositionsOf(itinerary.days[d].spots,
                           {"indoor", "museum", "shopping", "temple"}) # {}
            /\ itinerary.days[d].spots =
                   Append(RemoveAt(pre.days[d].spots, i), pre.days[o].spots[j])
            /\ itinerary.days[o].spots =
                   Append(RemoveAt(pre.days[o].spots, j), pre.days[d].spots[i])
            /\ \A k \in 1..Len(pre.days) : k \notin {d, o} => itinerary.days[k] = pre.days[k]
            /\ Len(itinerary.days) = Len(pre.days)

\* a swap was made for the middle day of three, both other days holding an
\* indoor spot; the indoor spot taken was not the first spot of the first day,
\* and the last day kept its own
C14_Witness ==
    /\ rpc = "replanned" /\ called.exc = "none" /\ called.ret = TRUE
    /\ Len(pre.days) = 3
    /\ ReplannedDay = 2
    /\ DaysWith(pre, 2, {"indoor", "museum", "shopping", "temple"}) = {1, 3}
    /\ Least(PositionsOf(pre.days[1].spots, {"indoor", "museum", "shopping", "temple"})) > 1
    /\ itinerary.days[1] # pre.days[1]
    /\ itinerary.days[3] = pre.days[3]

\* C15: replan_single_day returns False and leaves every day as it was when
\* the target day holds no outdoor spot or no other day holds an indoor spot.
C15_ReplanRefusesUnchanged ==
    (/\ rpc = "replanned" /\ called.exc = "none"
     /\ \/ PositionsOf(pre.days[ReplannedDay].spots, {"outdoor", "beach", "park", "garden"}) = {}
        \/ DaysWith(pre, ReplannedDay, {"indoor", "museum", "shopping", "temple"}) = {}) =>
        /\ called.ret = FALSE
        /\ itinerary = pre

\* a refused call on a day that holds an outdoor spot followed by another spot,
\* while another day holds spots, none of them indoor
C15_Witness ==
    /\ rpc = "replanned" /\ called.exc = "none" /\ called.ret = FALSE
    /\ Len(pre.days) = 2
    /\ \E i \in PositionsOf(pre.days[ReplannedDay].spots, {"outdoor", "beach", "park", "garden"}) :
           i < Len(pre.days[ReplannedDay].spots)
    /\ \E o \in 1..2 : o # ReplannedDay /\ pre.days[o].spots # <<>>
    /\ itinerary = pre

\* length of the route through the list s, leg by leg from the last one back
RouteKm(s) ==
    LET F[n \in 0..Len(s)] ==
            IF n <= 1 THEN 0 ELSE distance(s[n], s[n - 1]) + F[n - 1]
    IN  F[Len(s)]

\* the penalties of itin under c, as <<kind, day number>>: a day longer than
\* max_daily_km; a day of fewer than min_spots_per_day spots, counted only
\* when the spots would suffice to give every day that many
Penalties(itin, c) ==
    { <<"exceeded", itin.days[k].day>> :
          k \in { x \in 1..Len(itin.days) : RouteKm(itin.days[x].spots) > c.max_daily_km } }
    \cup
    IF Len(AllSpots(itin)) >= Len(itin.days) * c.min_spots_per_day
    THEN { <<"only", itin.days[k].day>> :
               k \in { x \in 1..Len(itin.days) : Len(itin.days[x].spots) < c.min_spots_per_day } }
    ELSE {}

\* sum of f over the days 1..n
SumDays(f(_), n) ==
    LET F[k \in 0..n] == IF k = 0 THEN 0 ELSE F[k - 1] + f(k)
    IN  F[n]

\* the score the documentation of score_itinerary promises
PromisedScore(itin, c) ==
    LET len(k) == RouteKm(itin.days[k].spots)
        over(k) == IF <<"exceeded", itin.days[k].day>> \in Penalties(itin, c)
                   THEN (len(k) - c.max_daily_km) * c.exceed_km_penalty ELSE 0
        sparse(k) == IF <<"only", itin.days[k].day>> \in Penalties(itin, c)
                     THEN c.one_spot_day_penalty ELSE 0
    IN  SumDays(len, Len(itin.days)) + SumDays(over, Len(itin.days))
        + SumDays(sparse, Len(itin.days))

\* C16: the score is the sum of the day lengths, plus the excess over
\* max_daily_km times exceed_km_penalty for each day over it, plus
\* one_spot_day_penalty for each day under min_spots_per_day, the latter only
\* when there are at least days * min_spots_per_day spots; the reasons hold one
\* entry per penalty, in day order, and none when no penalty applies.
C16_ScoreIsSumOfPenalties ==
    rpc = "scored" =>
        LET score == called.ret[1]
            reasons == called.ret[2]
        IN  /\ score = PromisedScore(pre, called.arg)
            /\ Len(reasons) = Cardinality(Penalties(pre, called.arg))
            /\ { <<reasons[i][1], reasons[i][2]>> : i \in 1..Len(reasons) }
                   = Penalties(pre, called.arg)
            /\ \A i, j \in 1..Len(reasons) : i < j => reasons[i][2] <= reasons[j][2]

\* a scored itinerary of two days, one over the limit and the other with a
\* single spot that is penalised
C16_Witness ==
    /\ rpc = "scored"
    /\ Len(pre.days) = 2
    /\ Len(called.ret[2]) = 2
    /\ called.ret[2][1][1] = "exceeded" /\ called.ret[2][1][2] = 1
    /\ called.ret[2][2][1] = "only" /\ called.ret[2][2][2] = 2
    /\ called.ret[1] > RouteKm(pre.days[1].spots) + called.arg.one_spot_day_penalty

\* a step that is one call of score_itinerary
ScoreStep == rpc # "off" /\ rpc' = "scored"

\* C17: a call of score_itinerary leaves the city, the list of days, each
\* day's number and each day's spots as they were; a second call with the
\* same configuration returns the same score and reasons.
C17_ScoreOnlyWritesDistance ==
    [][ScoreStep =>
          /\ itinerary'.city = itinerary.city
          /\ Len(itinerary'.days) = Len(itinerary.days)
          /\ \A k \in 1..Len(itinerary.days) :
                 /\ itinerary'.days[k].day = itinerary.days[k].day
                 /\ itinerary'.days[k].spots = itinerary.days[k].spots
          /\ (rpc = "scored" /\ called'.arg = called.arg) => called'.ret = called.ret
      ]_vars

\* a second call with the same configuration on an itinerary of two days
\* whose recorded distances the first call changed, and which has penalties
C17_Witness ==
    /\ rpc = "scored"
    /\ pre = itinerary
    /\ Len(itinerary.days) = 2
    /\ \A k \in 1..2 : itinerary.days[k].total_distance_km > 0
    /\ called.ret[2] # <<>>

\* 0-based position that the j-th input spot takes in the input sorted by
\* (lon, lat), spots of equal key keeping their input order
SortedPosition(j) ==
    LET inp == args.spots
        before(k) == \/ FloatLess(inp[k].lon, inp[j].lon)
                     \/ inp[k].lon = inp[j].lon /\ FloatLess(inp[k].lat, inp[j].lat)
                     \/ inp[k].lon = inp[j].lon /\ inp[k].lat = inp[j].lat /\ k < j
    IN  Cardinality({ k \in 1..Len(inp) : before(k) })

\* C18: the seed itinerary holds in day (i mod days) + 1 the spot at position
\* i of the sorted input, and nothing else; any two days differ in size by at
\* most one, and when days divides the number of spots every day has
\* n / days of them.
C18_SeedIsRoundRobin ==
    (pc = "loop" /\ args.days >= 1) =>
        LET n == Len(args.spots)
            size(d) == Len(heap[base].days[d].spots)
        IN  /\ \A d \in 1..args.days : \A x \in Pool :
                   Cardinality({ i \in 1..size(d) : heap[base].days[d].spots[i] = x })
                   = Cardinality({ j \in 1..n : /\ args.spots[j] = x
                                                /\ (SortedPosition(j) % args.days) + 1 = d })
            /\ \A d, e \in 1..args.days : size(d) - size(e) <= 1
            /\ n % args.days = 0 => \A d \in 1..args.days : size(d) = n \div args.days

\* a seed of two days built from three different spots given out of order:
\* day 1 holds the first and the third of the sorted list, day 2 the second
C18_Witness ==
    /\ pc = "loop" /\ t = 0
    /\ args.days = 2
    /\ Len(args.spots) = 3
    /\ SortedPosition(1) = 2 /\ SortedPosition(2) = 1 /\ SortedPosition(3) = 0
    /\ args.spots[1] # args.spots[2] /\ args.spots[2] # args.spots[3]
    /\ { heap[base].days[1].spots[i] : i \in 1..2 } = {args.spots[1], args.spots[3]}
    /\ heap[base].days[2].spots = <<args.spots[2]>>

\* C19: the itinerary that build_initial_itinerary returns has exactly `days`
\* day plans, the one at position i (from 0) numbered i + 1, and so has the
\* caller's itinerary after any sequence of moves, swaps, scorings, repair
\* passes and balancing calls.
C19_DaysStayInPlace ==
    rpc # "off" /\ called.op # "none" =>
        /\ Len(itinerary.days) = args.days
        /\ \A i \in 1..Len(itinerary.days) : itinerary.days[i].day = i

\* an itinerary of two days that was built, scored at some point and has just
\* gone through a balancing call that exchanged two spots
C19_Witness ==
    /\ rpc = "replanned" /\ called.exc = "none" /\ called.ret = TRUE
    /\ args.days = 2
    /\ Len(itinerary.days) = 2
    /\ \E i \in 1..2 : itinerary.days[i].total_distance_km > 0
    /\ itinerary.days[1].day = 1 /\ itinerary.days[2].day = 2
    /\ itinerary # build_initial_itinerary(args.city, args.spots, args.days).itin

\* the itinerary of args.days days without a spot
EmptyItinerary ==
    [city |-> args.city,
     days |-> [i \in 1..args.days |-> [day |-> i, spots |-> <<>>, total_distance_km |-> 0]]]

\* C20: with an empty spot list and days >= 1 the seed is `days` empty day
\* plans with score 0 and no reasons, and plan_itinerary_soft_constraints
\* returns that itinerary with score 0 and no reasons whatever the number of
\* trials, without raising.
C20_EmptyInputGivesEmptyDays ==
    (args.spots = <<>> /\ args.days >= 1) =>
        /\ pc = "loop" =>
               /\ heap[base] = EmptyItinerary
               /\ heap[best] = EmptyItinerary
               /\ best_score = 0
               /\ best_reasons = <<>>
        /\ \A i \in 1..Len(results) :
               /\ results[i].exc = "none"
               /\ results[i].itinerary = EmptyItinerary
               /\ results[i].score = 0
               /\ results[i].reasons = <<>>

\* a call with no spots, two days and two trials has returned
C20_Witness ==
    /\ args.spots = <<>>
    /\ args.days = 2
    /\ args.trials = 2
    /\ Len(results) = 1
    /\ results[1].exc = "none"
    /\ Len(results[1].itinerary.days) = 2

\* C21: a call that has seeded and scored its itinerary ends only after
\* exactly `trials` iterations, and then by returning best with its score and
\* reasons, the score being the least of those of the seed and the candidates.
C21_RunsAllTrials ==
    [][ (pc = "loop" /\ Len(results') > Len(results)) =>
            /\ t = args.trials
            /\ results'[Len(results')].exc = "none"
            /\ results'[Len(results')].itinerary = heap[best]
            /\ results'[Len(results')].score = best_score
            /\ results'[Len(results')].reasons = best_reasons
            /\ best_score <= SeedScored.score ]_vars

\* C22: distance(a, b) = distance(b, a), distance(a, a) = 0, and
\* distance(a, b) = 0 only if a and b have the same latitude and longitude.
C22_DistanceSymmetric ==
    rpc = "measured" =>
        LET a == called.arg[1]
            b == called.arg[2]
        IN  /\ called.ret = distance(b, a)
            /\ distance(a, a) = 0 /\ distance(b, b) = 0
            /\ called.ret = 0 => (a.lat = b.lat /\ a.lon = b.lon)
            /\ (a.lat = b.lat /\ a.lon = b.lon) => called.ret = 0

\* number of calls for key that returned True and whose timestamp is less
\* than the window old by the clock of the limiter state r
AdmittedRecent(r, key) ==
    LET F[ts \in -1..MaxClock] ==
            IF ts = -1 THEN 0
            ELSE F[ts - 1] + (IF r.clock - ts < r.window THEN r.admitted[key][ts] ELSE 0)
    IN  F[MaxClock]

\* thread i leaves is_allowed in this step
Leaves(i) == rl.th[i].pc = "cleaned" /\ rl'.th[i].pc = "idle"

\* C23: for every key the calls that returned True and are less than `window`
\* old never number more than `limit`; a call returns False exactly when
\* `limit` such calls exist already; a call that returns False records no
\* timestamp.
C23_LimiterExact ==
    [][ /\ \A key \in Keys : AdmittedRecent(rl', key) <= rl'.limit
        /\ \A i \in Threads : Leaves(i) =>
               /\ rl'.th[i].ret = FALSE <=> AdmittedRecent(rl, rl.th[i].key) >= rl.limit
               /\ rl'.th[i].ret = FALSE =>
                      /\ rl'.requests = rl.requests
                      /\ rl'.admitted = rl.admitted ]_vars

\* the ways to number n things
Orders(n) == { f \in [1..n -> 1..n] : \A i, j \in 1..n : i # j => f[i] # f[j] }

\* C24: nearest_neighbor_path returns its input in another order: the first
\* spot stays first, and each later spot is, of the input spots not placed
\* before it, one nearest to the spot just before it, the earliest of them in
\* input order when several are as near; the function applied to its own
\* output gives that output again.
C24_PathIsGreedy ==
    rpc = "routed" =>
        LET spots == called.arg
            path == called.ret
            n == Len(spots)
        IN  /\ Len(path) = n
            /\ \E f \in Orders(n) :
                   /\ \A k \in 1..n : path[k] = spots[f[k]]
                   /\ n >= 1 => f[1] = 1
                   /\ \A k \in 2..n : \A j \in 1..n :
                          j \notin { f[m] : m \in 1..(k - 1) } =>
                              LET dk == distance(path[k - 1], spots[f[k]])
                                  dj == distance(path[k - 1], spots[j])
                              IN  dk < dj \/ (dk = dj /\ f[k] <= j)
            /\ nearest_neighbor_path(path) = path

\* a list of four spots was reordered, two spots of different names being
\* equally near to the first
C24_Witness ==
    /\ rpc = "routed"
    /\ Len(called.arg) = 4
    /\ called.ret # called.arg
    /\ called.ret[2] # called.ret[3]
    /\ distance(called.ret[1], called.ret[2]) = distance(called.ret[1], called.ret[3])
    /\ distance(called.ret[1], called.ret[2]) > 0

\* the last spot of a list
Last(q) == q[Len(q)]

\* the day that should receive the spot popped from day p of itin (p already
\* without it): of the other days that are not empty, the one whose last spot
\* is nearest to the spot, the first of them in day order
Destination(itin, p, spot) ==
    LET others == { o \in 1..Len(itin.days) : o # p /\ itin.days[o].spots # <<>> }
        nearest == { o \in others : \A q \in others :
                        distance(spot, Last(itin.days[o].spots))
                            <= distance(spot, Last(itin.days[q].spots)) }
    IN  IF others = {} THEN 0 ELSE Least(nearest)

\* every iteration of the pass over the violations vs, from itin on, that
\* pops a spot appends it to the destination day and leaves the days that
\* are neither source nor destination as they were
RECURSIVE EveryStepGoesToNearest(_, _)
EveryStepGoesToNearest(itin, vs) ==
    \/ vs = <<>>
    \/ LET p == Head(vs).day
           after == RepairStep(itin, Head(vs))
           spot == Last(itin.days[p].spots)
           front == SubSeq(itin.days[p].spots, 1, Len(itin.days[p].spots) - 1)
           dest == Destination([itin EXCEPT !.days[p].spots = front], p, spot)
       IN  /\ Len(itin.days[p].spots) >= 2 =>
                  /\ after.days[p].spots = front
                  /\ dest # 0 => after.days[dest].spots = Append(itin.days[dest].spots, spot)
                  /\ \A o \in 1..Len(itin.days) :
                         o \notin {p, dest} => after.days[o] = itin.days[o]
                  /\ Len(after.days) = Len(itin.days)
           /\ EveryStepGoesToNearest(after, Tail(vs))

\* C25: the spot repair_itinerary pops from a violating day is appended to
\* the other non-empty day whose last spot is nearest to it, the first such
\* day in day order on a tie; the spots that day had keep their order, and
\* the days that are neither source nor destination are not changed by the
\* step.
C25_RepairPicksNearestDay ==
    rpc = "repaired" =>
        /\ EveryStepGoesToNearest(pre, check_daily_distance(pre))
        /\ itinerary = RepairLoop(pre, check_daily_distance(pre))

\* a pass over three non-empty days, the first the only one violating: its
\* last spot went to the third day, which ended nearer to it than the second
C25_Witness ==
    /\ rpc = "repaired"
    /\ Len(pre.days) = 3
    /\ Len(check_daily_distance(pre)) = 1
    /\ check_daily_distance(pre)[1].day = 1
    /\ pre.days[2].spots # <<>>
    /\ pre.days[3].spots # <<>>
    /\ distance(Last(pre.days[1].spots), Last(pre.days[3].spots))
           < distance(Last(pre.days[1].spots), Last(pre.days[2].spots))
    /\ itinerary.days[2] = pre.days[2]
    /\ itinerary.days[3].spots = Append(pre.days[3].spots, Last(pre.days[1].spots))

\* how many spots of the list s have a category in cats
CountOf(s, cats) == Cardinality(PositionsOf(s, cats))

\* C26: a call of replan_single_day that returns True keeps the spots of the
\* itinerary, each as often as before, and the size of every day; the target
\* day has one outdoor spot fewer and one indoor spot more, one other day the
\* reverse; each of the two spots is the last of its new day; the remaining
\* days are unchanged.
C26_ReplanKeepsSpots ==
    (rpc = "replanned" /\ called.exc = "none" /\ called.ret = TRUE) =>
        LET d == ReplannedDay
            out == {"outdoor", "beach", "park", "garden"}
            ind == {"indoor", "museum", "shopping", "temple"}
        IN  /\ BagOf(AllSpots(itinerary)) = BagOf(AllSpots(pre))
            /\ Len(itinerary.days) = Len(pre.days)
            /\ \A k \in 1..Len(pre.days) :
                   Len(itinerary.days[k].spots) = Len(pre.days[k].spots)
            /\ CountOf(itinerary.days[d].spots, out) = CountOf(pre.days[d].spots, out) - 1
            /\ CountOf(itinerary.days[d].spots, ind) = CountOf(pre.days[d].spots, ind) + 1
            /\ \E o \in 1..Len(pre.days) :
                   /\ o # d
                   /\ CountOf(itinerary.days[o].spots, out) = CountOf(pre.days[o].spots, out) + 1
                   /\ CountOf(itinerary.days[o].spots, ind) = CountOf(pre.days[o].spots, ind) - 1
                   /\ Last(itinerary.days[d].spots).category \in ind
                   /\ Last(itinerary.days[o].spots).category \in out
                   /\ BagOf(itinerary.days[d].spots \o <<Last(itinerary.days[o].spots)>>)
                          = BagOf(pre.days[d].spots \o <<Last(itinerary.days[d].spots)>>)
                   /\ \A k \in 1..Len(pre.days) :
                          k \notin {d, o} => itinerary.days[k] = pre.days[k]

\* an exchange between the first and the last of three days, the day between
\* them holding two spots, none of them indoor, and keeping them
C26_Witness ==
    /\ rpc = "replanned" /\ called.exc = "none" /\ called.ret = TRUE
    /\ Len(pre.days) = 3
    /\ ReplannedDay = 1
    /\ Len(pre.days[2].spots) = 2
    /\ itinerary.days[2] = pre.days[2]
    /\ itinerary.days[1] # pre.days[1] /\ itinerary.days[3] # pre.days[3]
    /\ Len(itinerary.days[1].spots) = Len(pre.days[1].spots)
    /\ Len(itinerary.days[3].spots) = Len(pre.days[3].spots)
    /\ BagOf(AllSpots(itinerary)) = BagOf(AllSpots(pre))

\* C27: for days >= 1 plan_itinerary returns `days` day plans numbered
\* 1..days; day k holds the spots at positions (k-1)*q+1 .. k*q of the sorted
\* input, q = n div days, so that exactly the last n mod days spots of the
\* sorted input are left out and no spot is there twice.
C27_ChunkedGivesDays ==
    (rpc = "chunked" /\ called.arg.days >= 1) =>
        LET n == Len(called.arg.spots)
            days == called.arg.days
            q == n \div days
            ss == sorted(called.arg.spots)
        IN  /\ called.exc = "none"
            /\ Len(called.ret.days) = days
            /\ \A k \in 1..Len(called.ret.days) :
                   /\ called.ret.days[k].day = k
                   /\ Len(called.ret.days[k].spots) = q
                   /\ BagOf(called.ret.days[k].spots)
                          = BagOf(SubSeq(ss, (k - 1) * q + 1, k * q))
            /\ BagOf(AllSpots(called.ret)) = BagOf(SubSeq(ss, 1, n - (n % days)))

\* C28: a call of plan_itinerary_soft_constraints that runs while another
\* request is served in the same process, the two requests' draws and
\* seedings interleaved in any order, returns the itinerary, the score and
\* the reasons that the same call returned when it ran alone.
C28_ConcurrentCallAsAlone ==
    \A k \in 1..Len(results) : results[k] = results[1]

\* C29: under RedisRateLimiter, for every key and every interleaving of the
\* remove-old, count and add steps of concurrent callers, the calls admitted
\* within `window` seconds are never more than `limit`, as long as there is
\* a Redis client and no Redis command has raised an error.
C29_RedisWindowLimit ==
    (rl.client /\ ~rl.raised) => \A key \in Keys : AdmittedRecent(rl, key) <= rl.limit

\* the days of itin that are not empty in the seed are not empty in itin, and
\* itin holds as many spots as the call was given
KeepsDaysOfSeed(itin) ==
    /\ Len(itin.days) = Len(SeedScored.itin.days)
    /\ \A i \in 1..Len(itin.days) :
           SeedScored.itin.days[i].spots # <<>> => itin.days[i].spots # <<>>
    /\ Len(AllSpots(itin)) = Len(args.spots)

\* C30: no day is emptied in plan_itinerary_soft_constraints. Every day that
\* holds a spot in the seed holds one in current, in best, in every candidate
\* and in the returned itinerary, each of which holds len(spots) spots; and
\* when len(spots) >= days the returned itinerary has no empty day.
C30_NoDayEmptied ==
    /\ pc = "loop" =>
           \A a \in {current, best, candidate} \ {0} : KeepsDaysOfSeed(heap[a])
    /\ \A k \in 1..Len(results) :
           results[k].exc = "none" =>
               /\ KeepsDaysOfSeed(results[k].itinerary)
               /\ Len(args.spots) >= args.days =>
                      \A i \in 1..Len(results[k].itinerary.days) :
                          results[k].itinerary.days[i].spots # <<>>

\* a call with three spots for two days has returned an itinerary in which
\* the move operator has taken a spot from the seed's day of two
C30_Witness ==
    /\ Len(results) = 1
    /\ results[1].exc = "none"
    /\ args.days = 2 /\ Len(args.spots) = 3
    /\ args.trials >= 1
    /\ \E i \in 1..2 :
           /\ Len(SeedScored.itin.days[i].spots) = 2
           /\ Len(results[1].itinerary.days[i].spots) = 1

====
